---- MODULE Spec2Model ----
(***************************************************************************)
(* LearnQwest ADA pipeline: the wave scheduler                             *)
(* (ExecutionStrategy.create_execution_plan), the plans the TaskDecomposer *)
(* builds, and ADACoordinator.execute with its wave coroutines             *)
(* (_execute_wave / _execute_subtask), the per-wave time budget and the    *)
(* top-level exception handler; the orchestrator's TaskQueue, RoutingSpine *)
(* and FeedbackLoop with its durable log; the OutputSynthesizer; and one   *)
(* TaskDecomposer called several times.                                    *)
(***************************************************************************)
EXTENDS Integers, Sequences, FiniteSets, Bags, TLC

VARIABLES
    pc,                     \* position of the running operation
    original_request,       \* task_plan.original_request: the task text of execute
    task_counter,           \* TaskDecomposer.task_counter
    pattern,                \* task_plan.pattern.value ("" before decomposition)
    subtasks,               \* task_plan.subtasks, a sequence of SubTask
    execution_waves,        \* the waves returned by create_execution_plan
    wave_num,               \* loop variable of "for wave_num, wave in enumerate(.., 1)"
    all_outputs,            \* the list handed to the synthesizer
    previous_wave_results,  \* dict: base Ion name -> result of a successful output
    metrics,                \* ExecutionMetrics counters
    co,                     \* task_id -> the _execute_subtask coroutine of that subtask
    invocations,            \* task_id -> number of ion_bridge.execute_ion calls made
    entries,                \* FeedbackLoop.entries
    feedback_file,          \* the lines of FeedbackLoop.feedback_file, the durable log
    rate_updates,           \* number of RoutingSpine.update_success_rate calls made
    exc,                    \* the exception caught by "except Exception as e"
    report,                 \* what execute returned
    trace,                  \* the trace argument of execute
    execution_trace,        \* the trace collector: a sequence of ExecutionTrace
    task_queue,             \* ADAOrchestrator.task_queue: the fields of the TaskQueue
    callers,                \* the coroutines calling the TaskQueue methods
    routing_spine,          \* RoutingSpine.routes: a sequence of AgentRoute
    routed,                 \* the outcome of the last RoutingSpine.route call
    reporters,              \* the process_task coroutines of the orchestrator
    clock,                  \* what datetime.now() returns
    synthesizer,            \* the synthesize calls made on one list of outputs
    parallel_groups,        \* task_plan.parallel_groups: a sequence of sets of task ids
    task_plans              \* the TaskPlans one TaskDecomposer has returned, in call order

\* the state ADACoordinator.execute and create_execution_plan work on, apart
\* from the feedback store
executeVars ==
    <<pc, original_request, task_counter, pattern, subtasks, execution_waves, wave_num,
      all_outputs, previous_wave_results, metrics, co, invocations,
      exc, report, trace, execution_trace>>

\* the same without the position of the caller
executeVarsButPc ==
    <<original_request, task_counter, pattern, subtasks, execution_waves, wave_num,
      all_outputs, previous_wave_results, metrics, co, invocations,
      exc, report, trace, execution_trace>>

coordinatorVars == <<executeVars, entries, feedback_file, rate_updates>>

\* the TaskQueue and its callers
queueVars == <<task_queue, callers>>

\* the RoutingSpine and the coroutines that route and report to it
spineVars == <<routing_spine, routed, reporters>>

\* the state of the orchestrator's components execute does not touch
orchestratorVars == <<queueVars, spineVars>>

\* the OutputSynthesizer called on its own, and the clock it reads
synthesizerVars == <<clock, synthesizer>>

\* what the TaskDecomposer returns besides the subtasks
decomposerVars == <<parallel_groups, task_plans>>

vars == <<coordinatorVars, orchestratorVars, synthesizerVars, decomposerVars>>

(***************************************************************************)
(* Bounds of the model.                                                    *)
(***************************************************************************)
\* longest subtask list given to create_execution_plan on its own
MaxTasks == 3

\* largest max_concurrent a TaskQueue is constructed with
MaxConcurrent == 1

\* number of LearningTasks submitted to a TaskQueue
MaxSubmitted == 2

\* number of process_task coroutines that report an outcome
MaxReports == 2

\* latest reading of the clock
MaxClock == 2

\* routes registered after the default routes
MaxRegistered == 1

(***************************************************************************)
(* Small helpers.                                                          *)
(***************************************************************************)
Range(s) == {s[i] : i \in 1..Len(s)}

RECURSIVE Concat(_)
Concat(ss) == IF ss = <<>> THEN <<>> ELSE Head(ss) \o Concat(Tail(ss))

(***************************************************************************)
(* Python str operations on the strings of the model.                      *)
(***************************************************************************)
UpperCase == "ABCDEFGHIJKLMNOPQRSTUVWXYZ"

LowerCase == "abcdefghijklmnopqrstuvwxyz"

\* the position of each upper-case letter in the alphabet
UpperIndex ==
    [ch \in {SubSeq(UpperCase, i, i) : i \in 1..Len(UpperCase)} |->
        CHOOSE i \in 1..Len(UpperCase) : SubSeq(UpperCase, i, i) = ch]

LowerChar(ch) ==
    IF ch \in DOMAIN UpperIndex
    THEN SubSeq(LowerCase, UpperIndex[ch], UpperIndex[ch])
    ELSE ch

\* str.lower()
RECURSIVE Lower(_)
Lower(str) ==
    IF str = "" THEN ""
    ELSE LowerChar(SubSeq(str, 1, 1)) \o Lower(SubSeq(str, 2, Len(str)))

\* "sub in str"
Contains(str, sub) ==
    \E i \in 1..(Len(str) - Len(sub) + 1) : SubSeq(str, i, i + Len(sub) - 1) = sub

\* any(word in str for word in words)
ContainsAny(str, words) == \E word \in words : Contains(str, word)

\* str.startswith(prefix)
StartsWith(str, prefix) ==
    /\ Len(str) >= Len(prefix)
    /\ SubSeq(str, 1, Len(prefix)) = prefix

\* str.endswith(suffix)
EndsWith(str, suffix) ==
    /\ Len(str) >= Len(suffix)
    /\ SubSeq(str, Len(str) - Len(suffix) + 1, Len(str)) = suffix

\* str.strip(), for the blanks of the model's strings
RECURSIVE Strip(_)
Strip(str) ==
    IF str = "" THEN ""
    ELSE IF SubSeq(str, 1, 1) = " " THEN Strip(SubSeq(str, 2, Len(str)))
    ELSE IF SubSeq(str, Len(str), Len(str)) = " "
         THEN Strip(SubSeq(str, 1, Len(str) - 1))
    ELSE str

\* a Python value handed to a function that expects a str: a str or None
Str(text) == [type |-> "str", value |-> text]

None == [type |-> "NoneType", value |-> ""]

NoOutput == [ion_name |-> "", description |-> "", success |-> FALSE,
             result |-> [kind |-> "none", text |-> ""], error |-> ""]

NoReport == [title |-> "", summary |-> "", raw_outputs |-> <<>>, error |-> ""]

NoMetrics == [total_subtasks |-> 0, successful_subtasks |-> 0,
              failed_subtasks |-> 0, waves_executed |-> 0]

(***************************************************************************)
(* SubTask (ada_task_decomposer.py).  depends_on holds task ids.           *)
(***************************************************************************)
SubTask(task_id, ion_name, description, priority, depends_on) ==
    [task_id |-> task_id, ion_name |-> ion_name, description |-> description,
     priority |-> priority, depends_on |-> depends_on]

\* faulty variant: the id is the Ion name alone
_generate_task_id_without_counter(ion_name, counter) == ion_name

\* f"{ion_name}_{self.task_counter:03d}"
_generate_task_id(ion_name, counter) ==
    ion_name \o "_" \o
        (IF counter < 10 THEN "00" ELSE IF counter < 100 THEN "0" ELSE "")
        \o ToString(counter)

(***************************************************************************)
(* ExecutionStrategy.create_execution_plan.                                *)
(***************************************************************************)
\* "if not task.depends_on ... elif all(dep in completed ...)"
IsReady(task, completed) ==
    \/ task.depends_on = {}
    \/ \A dep \in task.depends_on : dep \in completed

ReadyTasks(remaining, completed) ==
    SelectSeq(remaining, LAMBDA task : IsReady(task, completed))

\* "ready = remaining.copy()" when no task is ready
WaveOfRound(remaining, completed) ==
    IF ReadyTasks(remaining, completed) = <<>>
    THEN remaining
    ELSE ReadyTasks(remaining, completed)

\* "completed.add(task.ion_name)"
CompletedKey(task) == task.ion_name

RECURSIVE PlanLoop(_, _, _)
PlanLoop(remaining, completed, waves) ==
    IF remaining = <<>>
    THEN waves
    ELSE LET ready == WaveOfRound(remaining, completed)
         IN  PlanLoop(SelectSeq(remaining, LAMBDA t : t \notin Range(ready)),
                      completed \cup {CompletedKey(t) : t \in Range(ready)},
                      Append(waves, ready))

\* faulty variant: every subtask is put in the first wave
create_execution_plan_one_wave(tasks) ==
    IF tasks = <<>> THEN <<>> ELSE <<tasks>>

create_execution_plan(tasks) ==
    IF tasks = <<>> THEN <<>> ELSE PlanLoop(tasks, {}, <<>>)

\* the "[WARN] Could not resolve dependencies ..." lines the call prints to
\* standard output: one per round in which no task was ready
RECURSIVE PrintedWarnings(_, _)
PrintedWarnings(remaining, completed) ==
    IF remaining = <<>>
    THEN 0
    ELSE LET ready == WaveOfRound(remaining, completed)
         IN  (IF ReadyTasks(remaining, completed) = <<>> THEN 1 ELSE 0)
             + PrintedWarnings(SelectSeq(remaining, LAMBDA t : t \notin Range(ready)),
                               completed \cup {CompletedKey(t) : t \in Range(ready)})

\* what the caller receives besides the waves: "return waves" returns the list
\* of waves and nothing else, whether or not a warning was printed
ReturnedDiagnostics(tasks) == {}

\* sorted(wave, key=lambda t: t.priority): a stable sort
RECURSIVE InsertByPriority(_, _)
InsertByPriority(sorted, t) ==
    IF sorted = <<>> THEN <<t>>
    ELSE IF Head(sorted).priority <= t.priority
         THEN <<Head(sorted)>> \o InsertByPriority(Tail(sorted), t)
         ELSE <<t>> \o sorted

RECURSIVE optimize_wave(_)
optimize_wave(wave) ==
    IF wave = <<>> THEN <<>>
    ELSE InsertByPriority(optimize_wave(SubSeq(wave, 1, Len(wave) - 1)),
                          wave[Len(wave)])

(***************************************************************************)
(* Inputs of create_execution_plan taken on its own: any list of at most   *)
(* MaxTasks subtasks with distinct task ids; a dependency may name any of  *)
(* the MaxTasks ids (a cycle, a self-dependency, or an id absent from the  *)
(* list), and the Ion names of a list are either all spelled like the task *)
(* ids or all the same name.                                               *)
(***************************************************************************)
TaskIdOf(i) == "t" \o ToString(i)

PlanTaskIds == {TaskIdOf(i) : i \in 1..MaxTasks}

PlanIonName(i, likeId) == IF likeId THEN TaskIdOf(i) ELSE "ion"

PlanInput(n, likeId, deps) ==
    [i \in 1..n |-> SubTask(TaskIdOf(i), PlanIonName(i, likeId), "d", 3, deps[i])]

(***************************************************************************)
(* TaskDecomposer: the plan built for each pattern.  c is task_counter     *)
(* before the call; every subtask takes the next counter value.            *)
(***************************************************************************)
TaskPatterns ==
    {"analyze_codebase", "research_topic", "project_status", "code_cleanup",
     "create_learning", "assess_quality", "refactor_code", "generate_docs",
     "find_duplicates", "find_dead_code", "organize_code", "extract_content",
     "generate_quiz", "custom"}

(***************************************************************************)
(* TaskDecomposer._identify_pattern: the predicates of the chain, in the   *)
(* order the code tests them, each over task_lower = task.lower().         *)
(***************************************************************************)
IsDuplicateDetection(task_lower) ==
    \/ ContainsAny(task_lower, {"duplicate", "duplicates", "repeated", "redundant",
                                "copy", "copies"})
    \/ ContainsAny(task_lower, {"find duplicate", "duplicate code",
                                "duplicate patterns", "similar code"})

IsDeadCodeAnalysis(task_lower) ==
    \/ ContainsAny(task_lower, {"dead code", "unused code", "unreachable",
                                "identify unused", "find unused"})
    \/ /\ Contains(task_lower, "unused") \/ Contains(task_lower, "dead")
       /\ Contains(task_lower, "code")

IsCodeOrganization(task_lower) ==
    \/ ContainsAny(task_lower, {"code organization", "organize code", "group code",
                                "structure code", "analyze organization",
                                "analyze code organization"})
    \/ /\ Contains(task_lower, "code")
       /\ ContainsAny(task_lower, {"group", "structure", "arrange"})

IsQuizGeneration(task_lower) ==
    Contains(task_lower, "quiz") \/ Contains(task_lower, "test questions")

IsLearningMaterials(task_lower) ==
    /\ ContainsAny(task_lower, {"questions", "teach", "explain", "lesson", "study",
                                "learn"})
    /\ ~ContainsAny(task_lower, {"research", "search"})

IsCodebaseAnalysis(task_lower) ==
    /\ ContainsAny(task_lower, {"analyze", "audit", "assess", "review"})
    /\ ContainsAny(task_lower, {"codebase", "code", "repository", "project", "files"})

IsProjectStatus(task_lower) ==
    ContainsAny(task_lower, {"status", "where am i", "what was i", "context",
                             "working on", "yesterday"})

IsCodeCleanup(task_lower) ==
    ContainsAny(task_lower, {"clean", "cleanup", "tidy"})

IsRefactoring(task_lower) ==
    ContainsAny(task_lower, {"refactor", "restructure", "improve code",
                             "optimize code", "refactoring plan",
                             "generate refactoring"})

IsQualityAssessment(task_lower) ==
    /\ ContainsAny(task_lower, {"quality", "score", "rate", "evaluate"})
    /\ ContainsAny(task_lower, {"content", "video", "article", "resource"})

IsContentExtraction(task_lower) ==
    ContainsAny(task_lower, {"extract", "pull content", "get content", "transcript"})

IsDocumentation(task_lower) ==
    ContainsAny(task_lower, {"document", "docs", "readme", "guide"})

IsContentResearch(task_lower) ==
    ContainsAny(task_lower, {"research", "search", "learn about", "discover",
                             "look up"})

\* General "find" only if nothing more specific matched
IsGeneralFind(task_lower) == Contains(task_lower, "find")

\* the chain with the learning-materials test placed before the quiz test
PatternOfLowerLearningFirst(task_lower) ==
    IF IsDuplicateDetection(task_lower) THEN "find_duplicates"
    ELSE IF IsDeadCodeAnalysis(task_lower) THEN "find_dead_code"
    ELSE IF IsCodeOrganization(task_lower) THEN "organize_code"
    ELSE IF IsLearningMaterials(task_lower) THEN "create_learning"
    ELSE IF IsQuizGeneration(task_lower) THEN "generate_quiz"
    ELSE IF IsCodebaseAnalysis(task_lower) THEN "analyze_codebase"
    ELSE IF IsProjectStatus(task_lower) THEN "project_status"
    ELSE IF IsCodeCleanup(task_lower) THEN "code_cleanup"
    ELSE IF IsRefactoring(task_lower) THEN "refactor_code"
    ELSE IF IsQualityAssessment(task_lower) THEN "assess_quality"
    ELSE IF IsContentExtraction(task_lower) THEN "extract_content"
    ELSE IF IsDocumentation(task_lower) THEN "generate_docs"
    ELSE IF IsContentResearch(task_lower) THEN "research_topic"
    ELSE IF IsGeneralFind(task_lower) THEN "research_topic"
    ELSE "custom"

\* the chain without its last test, the general "find"
PatternOfLowerWithoutFind(task_lower) ==
    IF IsDuplicateDetection(task_lower) THEN "find_duplicates"
    ELSE IF IsDeadCodeAnalysis(task_lower) THEN "find_dead_code"
    ELSE IF IsCodeOrganization(task_lower) THEN "organize_code"
    ELSE IF IsQuizGeneration(task_lower) THEN "generate_quiz"
    ELSE IF IsLearningMaterials(task_lower) THEN "create_learning"
    ELSE IF IsCodebaseAnalysis(task_lower) THEN "analyze_codebase"
    ELSE IF IsProjectStatus(task_lower) THEN "project_status"
    ELSE IF IsCodeCleanup(task_lower) THEN "code_cleanup"
    ELSE IF IsRefactoring(task_lower) THEN "refactor_code"
    ELSE IF IsQualityAssessment(task_lower) THEN "assess_quality"
    ELSE IF IsContentExtraction(task_lower) THEN "extract_content"
    ELSE IF IsDocumentation(task_lower) THEN "generate_docs"
    ELSE IF IsContentResearch(task_lower) THEN "research_topic"
    ELSE "custom"

\* the chain with the general "find" test placed first
PatternOfLowerFindFirst(task_lower) ==
    IF IsGeneralFind(task_lower) THEN "research_topic"
    ELSE IF IsDuplicateDetection(task_lower) THEN "find_duplicates"
    ELSE IF IsDeadCodeAnalysis(task_lower) THEN "find_dead_code"
    ELSE IF IsCodeOrganization(task_lower) THEN "organize_code"
    ELSE IF IsQuizGeneration(task_lower) THEN "generate_quiz"
    ELSE IF IsLearningMaterials(task_lower) THEN "create_learning"
    ELSE IF IsCodebaseAnalysis(task_lower) THEN "analyze_codebase"
    ELSE IF IsProjectStatus(task_lower) THEN "project_status"
    ELSE IF IsCodeCleanup(task_lower) THEN "code_cleanup"
    ELSE IF IsRefactoring(task_lower) THEN "refactor_code"
    ELSE IF IsQualityAssessment(task_lower) THEN "assess_quality"
    ELSE IF IsContentExtraction(task_lower) THEN "extract_content"
    ELSE IF IsDocumentation(task_lower) THEN "generate_docs"
    ELSE IF IsContentResearch(task_lower) THEN "research_topic"
    ELSE "custom"

\* the if-chain of _identify_pattern: the first test that holds decides
PatternOfLower(task_lower) ==
    IF IsDuplicateDetection(task_lower) THEN "find_duplicates"
    ELSE IF IsDeadCodeAnalysis(task_lower) THEN "find_dead_code"
    ELSE IF IsCodeOrganization(task_lower) THEN "organize_code"
    ELSE IF IsQuizGeneration(task_lower) THEN "generate_quiz"
    ELSE IF IsLearningMaterials(task_lower) THEN "create_learning"
    ELSE IF IsCodebaseAnalysis(task_lower) THEN "analyze_codebase"
    ELSE IF IsProjectStatus(task_lower) THEN "project_status"
    ELSE IF IsCodeCleanup(task_lower) THEN "code_cleanup"
    ELSE IF IsRefactoring(task_lower) THEN "refactor_code"
    ELSE IF IsQualityAssessment(task_lower) THEN "assess_quality"
    ELSE IF IsContentExtraction(task_lower) THEN "extract_content"
    ELSE IF IsDocumentation(task_lower) THEN "generate_docs"
    ELSE IF IsContentResearch(task_lower) THEN "research_topic"
    ELSE IF IsGeneralFind(task_lower) THEN "research_topic"
    ELSE "custom"

\* def _identify_pattern(self, task: str) -> TaskPattern
_identify_pattern(text) == PatternOfLower(Lower(text))

\* the task texts execute is called with: the two scenarios of the
\* specification, one text for each pattern, a text only the general "find"
\* recognises, a text in capitals, and texts no test recognises
TaskTexts ==
    {"Analyze the codebase for duplicates and dead code",
     "Create a quiz about photosynthesis for 6th grade with 10 questions",
     "Analyze the codebase",
     "Research black holes",
     "What was I working on yesterday",
     "Tidy up the workspace",
     "Teach me fractions",
     "Rate this video",
     "REFACTOR THE PARSER",
     "Write a readme",
     "Find duplicate code",
     "Identify unused code",
     "Group code by feature",
     "Get the transcript",
     "find my keys",
     "Hello there",
     ""}

_decompose_codebase_analysis(c) ==
    LET dup   == SubTask(_generate_task_id("duplicate-detector", c + 1),
                         "duplicate-detector", "Find duplicate code patterns", 2, {})
        dead  == SubTask(_generate_task_id("dead-code-eliminator", c + 2),
                         "dead-code-eliminator", "Identify unused code", 2, {})
        group == SubTask(_generate_task_id("code-grouper", c + 3),
                         "code-grouper", "Analyze code organization", 3, {})
    IN  <<dup, dead, group,
          SubTask(_generate_task_id("refactor-planner", c + 4), "refactor-planner",
                  "Generate refactoring recommendations", 1,
                  {dup.task_id, dead.task_id, group.task_id})>>

_decompose_content_research(c) ==
    LET search == SubTask(_generate_task_id("omnisearch", c + 1), "omnisearch",
                          "Search for content about topic", 1, {})
    IN  <<search,
          SubTask(_generate_task_id("quality-assessor", c + 2), "quality-assessor",
                  "Assess content quality", 2, {search.task_id})>>

_decompose_code_cleanup(c) ==
    LET dup  == SubTask(_generate_task_id("duplicate-detector", c + 1),
                        "duplicate-detector", "Find duplicates to consolidate", 1, {})
        dead == SubTask(_generate_task_id("dead-code-eliminator", c + 2),
                        "dead-code-eliminator", "Find code to remove", 1, {})
    IN  <<dup, dead,
          SubTask(_generate_task_id("refactor-planner", c + 3), "refactor-planner",
                  "Plan cleanup actions", 2, {dup.task_id, dead.task_id})>>

_decompose_refactoring(c) ==
    LET dup   == SubTask(_generate_task_id("duplicate-detector", c + 1),
                         "duplicate-detector",
                         "Find duplicate code patterns for refactoring consideration", 2, {})
        dead  == SubTask(_generate_task_id("dead-code-eliminator", c + 2),
                         "dead-code-eliminator",
                         "Identify unused code for removal recommendations", 2, {})
        group == SubTask(_generate_task_id("code-grouper", c + 3), "code-grouper",
                         "Analyze code organization for restructuring opportunities", 2, {})
    IN  <<dup, dead, group,
          SubTask(_generate_task_id("refactor-planner", c + 4), "refactor-planner",
                  "Generate comprehensive refactoring plan using analysis results", 1,
                  {dup.task_id, dead.task_id, group.task_id})>>

\* the builders that return one subtask: its Ion name and description
SingleTaskOf(p) ==
    CASE p = "project_status"  -> <<"context-builder", "Build project context from logs and git">>
      [] p = "create_learning" -> <<"quiz-generator", "Generate quiz about topic">>
      [] p = "assess_quality"  -> <<"quality-assessor", "Assess content quality">>
      [] p = "generate_docs"   -> <<"doc-generator", "Generate documentation">>
      [] p = "find_duplicates" -> <<"duplicate-detector", "Find duplicate code patterns">>
      [] p = "find_dead_code"  -> <<"dead-code-eliminator", "Find unused code">>
      [] p = "organize_code"   -> <<"code-grouper", "Analyze code organization">>
      [] p = "extract_content" -> <<"content-extractor", "Extract content from source">>
      [] p = "generate_quiz"   -> <<"quiz-generator", "Generate quiz about topic">>
      [] OTHER                 -> <<"general", "task">>

_decompose_single(p, c) ==
    <<SubTask(_generate_task_id(SingleTaskOf(p)[1], c + 1), SingleTaskOf(p)[1],
              SingleTaskOf(p)[2], 1, {})>>

\* "decompose_fn = self.patterns.get(pattern, self._decompose_custom)"
decompose(p, c) ==
    CASE p = "analyze_codebase" -> _decompose_codebase_analysis(c)
      [] p = "research_topic"   -> _decompose_content_research(c)
      [] p = "code_cleanup"     -> _decompose_code_cleanup(c)
      [] p = "refactor_code"    -> _decompose_refactoring(c)
      [] OTHER                  -> _decompose_single(p, c)

\* "next(st for st in subtasks if st.task_id == task_id)"
FirstWithId(tasks, task_id) ==
    tasks[CHOOSE i \in 1..Len(tasks) :
            /\ tasks[i].task_id = task_id
            /\ \A j \in 1..(i - 1) : tasks[j].task_id # task_id]

\* the "while remaining" loop of _calculate_parallel_groups; a group is the
\* set of its task ids (their order in the list is the iteration order of a
\* Python set)
RECURSIVE GroupLoop(_, _, _, _)
GroupLoop(tasks, remaining, completed, groups) ==
    IF remaining = {}
    THEN groups
    ELSE LET current_group ==
                {task_id \in remaining :
                    \A dep \in FirstWithId(tasks, task_id).depends_on :
                        dep \in completed}
         IN  IF current_group = {}
             THEN groups
             ELSE GroupLoop(tasks, remaining \ current_group,
                            completed \cup current_group,
                            Append(groups, current_group))

_calculate_parallel_groups(tasks) ==
    GroupLoop(tasks, {tasks[i].task_id : i \in 1..Len(tasks)}, {}, <<>>)

\* the TaskPlan decompose returns (estimated_time_seconds left out)
TaskPlan(original_request_, pattern_, subtasks_) ==
    [original_request |-> original_request_, pattern |-> pattern_,
     subtasks |-> subtasks_, requires_synthesis |-> Len(subtasks_) > 1,
     parallel_groups |-> _calculate_parallel_groups(subtasks_)]

(***************************************************************************)
(* TaskQueue (ada_orchestrator.py).  A LearningTask is its id, the value   *)
(* of its TaskPriority and the value of its TaskStatus; active_tasks and   *)
(* completed_tasks are dicts from task id to task; _lock holds the caller  *)
(* inside "async with self._lock" ("" when free).                          *)
(***************************************************************************)
TaskPriority == {1, 2, 3, 4}

LearningTask(id, priority, status) ==
    [id |-> id, priority |-> priority, status |-> status]

\* def __init__(self, max_concurrent: int = 5)
DefaultMaxConcurrent == 5

TaskQueue(max_concurrent) ==
    [queue |-> <<>>, active_tasks |-> <<>>, completed_tasks |-> <<>>,
     max_concurrent |-> max_concurrent, _lock |-> ""]

\* the coroutines that call the queue at the same time: the processing loop
\* and a second caller (dashboard.py and demo_pipeline.py call the same methods)
Callers == {"_process_queue", "dashboard"}

NoTask == LearningTask(0, 0, "")

\* op: the method the caller is inside ("" when it is in none); task, task_id:
\* the argument of the call
Caller(op, task, task_id) == [op |-> op, task |-> task, task_id |-> task_id]

IdleCaller == Caller("", NoTask, 0)

\* dict[key] = value
DictSet(dict, key, value) ==
    [k \in DOMAIN dict \cup {key} |-> IF k = key THEN value ELSE dict[k]]

\* faulty variant: the value is read and the key stays in the dict
DictPopKeepsKey(dict, key) == dict

\* dict.pop(key)
DictPop(dict, key) == [k \in DOMAIN dict \ {key} |-> dict[k]]

\* faulty variant: the queue is left in the order of the appends
SortByPriorityDescOmitted(q) == q

\* self.queue.sort(key=lambda t: t.priority.value, reverse=True): a stable sort
RECURSIVE InsertByPriorityDesc(_, _)
InsertByPriorityDesc(sorted, t) ==
    IF sorted = <<>> THEN <<t>>
    ELSE IF Head(sorted).priority >= t.priority
         THEN <<Head(sorted)>> \o InsertByPriorityDesc(Tail(sorted), t)
         ELSE <<t>> \o sorted

RECURSIVE SortByPriorityDesc(_)
SortByPriorityDesc(q) ==
    IF q = <<>> THEN <<>>
    ELSE InsertByPriorityDesc(SortByPriorityDesc(SubSeq(q, 1, Len(q) - 1)), q[Len(q)])

\* a faulty capacity test that admits one task too many
HasCapacityOffByOne(tq) == Cardinality(DOMAIN tq.active_tasks) <= tq.max_concurrent

\* the negation of "if len(self.active_tasks) >= self.max_concurrent: return None"
HasCapacity(tq) == Cardinality(DOMAIN tq.active_tasks) < tq.max_concurrent

\* the body of add_task inside the lock: the fields after it, and "return task.id"
add_task_body(tq, task) ==
    [task_queue |-> [tq EXCEPT !.queue = SortByPriorityDesc(Append(@, task))],
     returned |-> task.id]

\* the body of get_next_task inside the lock: the fields after it, and what the
\* method returns (None, or the task popped from the head of the queue)
get_next_task_body(tq) ==
    IF ~HasCapacity(tq) \/ tq.queue = <<>>
    THEN [task_queue |-> tq, returned |-> None]
    ELSE [task_queue |-> [tq EXCEPT
                            !.queue = Tail(@),
                            !.active_tasks = DictSet(@, Head(tq.queue).id,
                                                     Head(tq.queue))],
          returned |-> Head(tq.queue)]

(***************************************************************************)
(* RoutingSpine (ada_orchestrator.py).  success_rate is a fixed-point      *)
(* number: the integer RateOne stands for 1.0, which keeps every moving    *)
(* average of at most MaxReports updates exact.                            *)
(***************************************************************************)
RECURSIVE PowerOfTen(_)
PowerOfTen(n) == IF n = 0 THEN 1 ELSE 10 * PowerOfTen(n - 1)

\* success_rate: float = 1.0
RateOne == PowerOfTen(MaxReports)

AgentRoute(agent_name, handles_content, capabilities, priority, success_rate) ==
    [agent_name |-> agent_name, handles_content |-> handles_content,
     capabilities |-> capabilities, priority |-> priority,
     success_rate |-> success_rate]

\* the routes in the order register_route appended them
_register_default_routes ==
    <<AgentRoute("omnisearch", {"search_query", "question"}, {"search"}, 10, RateOne),
      AgentRoute("quality-assessor", {"document", "code_file"},
                 {"assess", "analyze"}, 8, RateOne),
      AgentRoute("duplicate-detector-ion", {"code_file"}, {"analyze"}, 5, RateOne),
      AgentRoute("refactor-planner-ion", {"code_file"},
                 {"refactor", "analyze"}, 5, RateOne),
      AgentRoute("claude-code", {"code_file", "question"},
                 {"generate", "explain", "refactor"}, 9, RateOne),
      AgentRoute("youtube-extractor", {"youtube_video"},
                 {"analyze", "generate"}, 10, RateOne)>>

detect_content_type(content) ==
    LET content_lower == Lower(content)
    IN  IF Contains(content_lower, "youtube.com") \/ Contains(content_lower, "youtu.be")
        THEN "youtube_video"
        ELSE IF ContainsAny(content_lower,
                    {".py", ".ts", ".js", ".tsx", ".jsx", ".java", ".go", ".rs"})
        THEN "code_file"
        ELSE IF ContainsAny(content,
                    {"def ", "function ", "class ", "import ", "const ", "let ", "var "})
        THEN "code_file"
        ELSE IF ContainsAny(content_lower,
                    {"find", "search", "look for", "where is", "how to find"})
        THEN "search_query"
        ELSE IF \/ EndsWith(Strip(content), "?")
                \/ \E w \in {"what", "how", "why", "when", "where", "who"} :
                        StartsWith(content_lower, w)
        THEN "question"
        ELSE IF Len(content) > 500
        THEN "document"
        ELSE "unknown"

detect_required_capability(content) ==
    LET content_lower == Lower(content)
    IN  IF ContainsAny(content_lower, {"search", "find", "look for"}) THEN "search"
        ELSE IF ContainsAny(content_lower, {"analyze", "assess", "evaluate", "review"})
        THEN "analyze"
        ELSE IF ContainsAny(content_lower, {"generate", "create", "write", "build", "make"})
        THEN "generate"
        ELSE IF ContainsAny(content_lower, {"refactor", "improve", "optimize", "fix"})
        THEN "refactor"
        ELSE IF ContainsAny(content_lower, {"explain", "what is", "how does", "why"})
        THEN "explain"
        ELSE "analyze"

\* the (agent_name, score) pair route appends for a matching route
RouteMatch(agent_name, score) == [agent_name |-> agent_name, score |-> score]

\* a faulty variant without the bonus for a route that matches both
RouteScoreNoBonus(r, content_type, capability) == r.priority * r.success_rate

\* "score = route.priority * route.success_rate", doubled when both match
RouteScore(r, content_type, capability) ==
    IF content_type \in r.handles_content /\ capability \in r.capabilities
    THEN r.priority * r.success_rate * 2
    ELSE r.priority * r.success_rate

\* "if type_match or capability_match"
RouteMatches(r, content_type, capability) ==
    content_type \in r.handles_content \/ capability \in r.capabilities

\* the list "matches" after the loop over self.routes
RECURSIVE MatchesOf(_, _, _)
MatchesOf(routes, content_type, capability) ==
    IF routes = <<>> THEN <<>>
    ELSE (IF RouteMatches(Head(routes), content_type, capability)
          THEN <<RouteMatch(Head(routes).agent_name,
                            RouteScore(Head(routes), content_type, capability))>>
          ELSE <<>>)
         \o MatchesOf(Tail(routes), content_type, capability)

\* matches.sort(key=lambda x: x[1], reverse=True): a stable sort
RECURSIVE InsertByScoreDesc(_, _)
InsertByScoreDesc(sorted, m) ==
    IF sorted = <<>> THEN <<m>>
    ELSE IF Head(sorted).score >= m.score
         THEN <<Head(sorted)>> \o InsertByScoreDesc(Tail(sorted), m)
         ELSE <<m>> \o sorted

RECURSIVE SortByScoreDesc(_)
SortByScoreDesc(matches) ==
    IF matches = <<>> THEN <<>>
    ELSE InsertByScoreDesc(SortByScoreDesc(SubSeq(matches, 1, Len(matches) - 1)),
                           matches[Len(matches)])

\* what a call of route did: the list it returned, or the exception it raised
Routing(content, agents, raised) ==
    [called |-> TRUE, content |-> content, agents |-> agents, raised |-> raised]

NoRouting == [called |-> FALSE, content |-> None, agents |-> <<>>, raised |-> ""]

\* the agents of a str content: the sorted matches, or the fallback
RoutedAgents(text, routes) ==
    LET matches == SortByScoreDesc(MatchesOf(routes, detect_content_type(text),
                                             detect_required_capability(text)))
        agents  == [i \in 1..Len(matches) |-> matches[i].agent_name]
    IN  IF agents = <<>> THEN <<"general-learning-agent">> ELSE agents

\* RoutingSpine.route: content.lower() raises AttributeError when content is
\* not a str
route(content, routes) ==
    IF content.type # "str"
    THEN Routing(content, <<>>, "AttributeError")
    ELSE Routing(content, RoutedAgents(content.value, routes), "")

\* a faulty variant that adds or subtracts a tenth instead of averaging
MovingAverageAdditive(success_rate, success) ==
    success_rate + (IF success THEN RateOne ELSE 0 - RateOne) \div 10

\* "alpha * (1.0 if success else 0.0) + (1 - alpha) * route.success_rate" with
\* alpha = 0.1
MovingAverage(success_rate, success) ==
    ((IF success THEN RateOne ELSE 0) + 9 * success_rate) \div 10

\* a faulty variant that averages against the initial rate, losing the
\* updates made before
update_success_rate_lost(routes, agent_name, success) ==
    IF \E i \in 1..Len(routes) : routes[i].agent_name = agent_name
    THEN LET i == CHOOSE k \in 1..Len(routes) :
                    /\ routes[k].agent_name = agent_name
                    /\ \A j \in 1..(k - 1) : routes[j].agent_name # agent_name
         IN  [routes EXCEPT ![i].success_rate = MovingAverage(RateOne, success)]
    ELSE routes

\* a faulty variant without the test of the name: every route is updated
update_success_rate_every(routes, agent_name, success) ==
    [i \in 1..Len(routes) |->
        [routes[i] EXCEPT !.success_rate = MovingAverage(@, success)]]

\* RoutingSpine.update_success_rate: the first route of that name is updated
update_success_rate(routes, agent_name, success) ==
    IF \E i \in 1..Len(routes) : routes[i].agent_name = agent_name
    THEN LET i == CHOOSE k \in 1..Len(routes) :
                    /\ routes[k].agent_name = agent_name
                    /\ \A j \in 1..(k - 1) : routes[j].agent_name # agent_name
         IN  [routes EXCEPT ![i].success_rate = MovingAverage(@, success)]
    ELSE routes

\* "for agent in task.assigned_agents: update_success_rate(agent, success=...)"
RECURSIVE UpdateAll(_, _, _)
UpdateAll(routes, agents, success) ==
    IF agents = <<>> THEN routes
    ELSE UpdateAll(update_success_rate(routes, Head(agents), success),
                   Tail(agents), success)

(***************************************************************************)
(* FeedbackLoop.record, and the process_task coroutines that call it.      *)
(***************************************************************************)
\* a faulty variant that writes the entry over the last one
record_overwrites(feedback_entries, entry) ==
    IF feedback_entries = <<>> THEN <<entry>>
    ELSE [feedback_entries EXCEPT ![Len(feedback_entries)] = entry]

\* "self.entries.append(entry)"
record(feedback_entries, entry) == Append(feedback_entries, entry)

\* what open(self.feedback_file, 'a') and f.write can raise
WriteErrors == {"OSError"}

\* record with the write to the log outside the try block: the entry is in
\* the list already when the write raises
record_and_write_unguarded(feedback_entries, file, entry, write_error) ==
    [entries |-> record(feedback_entries, entry),
     feedback_file |-> IF write_error = "" THEN Append(file, entry) ELSE file,
     raised |-> write_error]

\* the whole of FeedbackLoop.record: the entry is appended to the list, then
\* "try: with open(self.feedback_file, 'a') as f: f.write(...)" adds its line
\* to the log, and "except Exception as e: logger.error(...)" swallows what
\* the write raised (write_error, "" when it raised nothing)
record_and_write(feedback_entries, file, entry, write_error) ==
    [entries |-> record(feedback_entries, entry),
     feedback_file |-> IF write_error = "" THEN Append(file, entry) ELSE file,
     raised |-> ""]

\* the entry process_task records for its task
TaskFeedbackEntry(r, content_type, agents_used, success) ==
    [task_id |-> r, content_type |-> content_type, agents_used |-> agents_used,
     success |-> success]

\* the process_task coroutines that run at the same time
Reporters == {"process_task_1", "process_task_2"}

\* state: idle, or executing (suspended in execute_with_agents)
Reporter(state, content_type, assigned_agents) ==
    [state |-> state, content_type |-> content_type,
     assigned_agents |-> assigned_agents]

IdleReporter == Reporter("idle", "", <<>>)

\* "task.assigned_agents = routed_agents[:5]"
TopFive(agents) == SubSeq(agents, 1, IF Len(agents) < 5 THEN Len(agents) ELSE 5)

(***************************************************************************)
(* IonOutput and the outputs the coordinator builds.                       *)
(***************************************************************************)
IonOutput(ion_name, description, success, result, error) ==
    [ion_name |-> ion_name, description |-> description, success |-> success,
     result |-> result, error |-> error]

\* ION_NAME_MAP.get(ion_name, ion_name)
_resolve_ion_name(ion_name) ==
    IF ion_name \in {"duplicate-detector", "dead-code-eliminator", "code-grouper",
                     "refactor-planner", "content-fetcher", "context-builder",
                     "quiz-generator"}
    THEN ion_name \o "-ion"
    ELSE ion_name

\* str.replace(old, ""): every occurrence of old is removed
RECURSIVE Remove(_, _)
Remove(s, old) ==
    IF Len(s) < Len(old) THEN s
    ELSE IF SubSeq(s, 1, Len(old)) = old
         THEN Remove(SubSeq(s, Len(old) + 1, Len(s)), old)
         ELSE SubSeq(s, 1, 1) \o Remove(SubSeq(s, 2, Len(s)), old)

\* base_name = output.ion_name.replace("-ion", "")
BaseName(ion_name) == Remove(ion_name, "-ion")

\* what execute_ion can do: return a dict reporting success or failure, or raise
ExecutorErrors == {"Ion process crashed"}

\* IonOutput built from the dict execute_ion returned
RealOutput(subtask, success) ==
    IonOutput(subtask.ion_name, subtask.description, success,
              [kind |-> IF success THEN "payload" ELSE "failure",
               text |-> _resolve_ion_name(subtask.ion_name)], "")

\* the "Simulate for Ions we don't have yet" branch
SimulatedOutput(subtask) ==
    IonOutput(subtask.ion_name, subtask.description, TRUE,
              [kind |-> "simulated",
               text |-> "Simulated " \o subtask.ion_name \o " execution"], "")

\* faulty variant: the caught exception is reported as a success without error text
ExceptionOutputSwallowed(subtask, e) ==
    IonOutput(subtask.ion_name, subtask.description, TRUE,
              [kind |-> "error", text |-> ""], "")

\* "except Exception as e" of _execute_subtask
ExceptionOutput(subtask, e) ==
    IonOutput(subtask.ion_name, subtask.description, FALSE,
              [kind |-> "error", text |-> e], e)

\* faulty variant: the timeout output carries no error text
TimeoutOutputNoError(subtask) ==
    IonOutput(subtask.ion_name, subtask.description, FALSE,
              [kind |-> "error", text |-> "Timeout"], "")

\* the output appended for a subtask of a wave that timed out
TimeoutOutput(subtask) ==
    IonOutput(subtask.ion_name, subtask.description, FALSE,
              [kind |-> "error", text |-> "Timeout"], "Execution timeout")

\* feedback_loop.record(...): the entry appended
FeedbackEntry(subtask, success) ==
    [task_id |-> "coord-" \o subtask.ion_name, content_type |-> subtask.ion_name,
     agents_used |-> <<subtask.ion_name>>, success |-> success]

(***************************************************************************)
(* ExecutionTrace and the trace collector.  end_time is "None" until the   *)
(* entry is closed.                                                        *)
(***************************************************************************)
ExecutionTrace(wave, ion_name, status, end_time) ==
    [wave |-> wave, ion_name |-> ion_name, status |-> status, end_time |-> end_time]

\* _execute_wave: "for subtask in wave: trace_list.append(ExecutionTrace(...
\* status="STARTED" ...))" over the optimized wave
OpenTraceEntries(trace_list, wave, n) ==
    trace_list \o [i \in 1..Len(wave) |->
                    ExecutionTrace(n, optimize_wave(wave)[i].ion_name, "STARTED", "None")]

\* the entries "for trace_entry in reversed(trace_list)" stops at: those of
\* this Ion name and wave that are still open
OpenEntriesOf(trace_list, subtask, n) ==
    {i \in 1..Len(trace_list) :
        /\ trace_list[i].ion_name = subtask.ion_name
        /\ trace_list[i].wave = n
        /\ trace_list[i].end_time = "None"}

\* _execute_subtask after execute_ion returned: the last open entry of the
\* subtask gets its end time and the status SUCCESS or FAILED
CloseTraceEntry(trace_list, subtask, n, success) ==
    IF OpenEntriesOf(trace_list, subtask, n) = {}
    THEN trace_list
    ELSE LET i == CHOOSE k \in OpenEntriesOf(trace_list, subtask, n) :
                    \A j \in OpenEntriesOf(trace_list, subtask, n) : j <= k
         IN  [trace_list EXCEPT ![i] =
                ExecutionTrace(n, subtask.ion_name,
                               IF success THEN "SUCCESS" ELSE "FAILED", "time")]

(***************************************************************************)
(* The coroutines of a wave.                                               *)
(***************************************************************************)
\* state: idle (not created), created, invoking (suspended in execute_ion),
\* returned, cancelled; e: the exception caught by "except Exception as e";
\* previous_results: the dict passed to execute_ion
Coroutine(state, output, previous_results, e) ==
    [state |-> state, output |-> output, previous_results |-> previous_results,
     e |-> e]

IdleCoroutine == Coroutine("idle", NoOutput, <<>>, "")

CurrentWave == execution_waves[wave_num]

\* faulty variant: the wave is taken as done at the first completed subtask
GatherDoneFirstCompleted(wave) ==
    \E t \in Range(wave) : co[t.task_id].state = "returned"

\* faulty variant: gather without return_exceptions, over at the first subtask
\* that ended with an exception
GatherDoneFirstException(wave) ==
    \/ \A t \in Range(wave) : co[t.task_id].state = "returned"
    \/ \E t \in Range(wave) :
            co[t.task_id].state = "returned" /\ co[t.task_id].e # ""

\* "results = await asyncio.gather(*tasks, return_exceptions=True)" has returned
GatherDone(wave) == \A t \in Range(wave) : co[t.task_id].state = "returned"

\* faulty variant: timeout outputs only for the subtasks that had not returned
TimedOutPendingOnly(wave) ==
    SelectSeq(wave, LAMBDA t : co[t.task_id].state # "returned")

\* the subtasks for which the timeout handler of execute appends an output
TimedOutSubtasks(wave) == wave

\* faulty variant: a wave that timed out is dispatched again
WaveRetried(n) == n

\* the wave the loop goes to after a wave timed out
WaveAfterTimeout(n) == n + 1

\* faulty variant: the result of every output is stored, failed ones included
StoresAnyResult(output) == TRUE

\* "if output.success: previous_wave_results[base_name] = output.result"
StoresResult(output) == output.success

RECURSIVE StoreResults(_, _)
StoreResults(results, outputs) ==
    IF outputs = <<>> THEN results
    ELSE StoreResults(
            IF StoresResult(Head(outputs))
            THEN [k \in DOMAIN results \cup {BaseName(Head(outputs).ion_name)} |->
                    IF k = BaseName(Head(outputs).ion_name)
                    THEN Head(outputs).result
                    ELSE results[k]]
            ELSE results,
            Tail(outputs))

CountSuccess(outputs) == Len(SelectSeq(outputs, LAMBDA o : o.success))

\* faulty variant: the error report keeps the outputs collected so far and
\* drops the error text from its summary
ErrorReportPartial(e) ==
    [title |-> "Execution Error", summary |-> "Task execution failed",
     raw_outputs |-> all_outputs, error |-> e]

\* the report built by "except Exception as e" of execute
ErrorReport(e) ==
    [title |-> "Execution Error", summary |-> "Task execution failed: " \o e,
     raw_outputs |-> <<>>, error |-> e]

\* OutputSynthesizer.synthesize: the title of the fusion function of the pattern
SynthesizedTitle(p) ==
    CASE p \in {"analyze_codebase", "find_duplicates", "find_dead_code", "organize_code"}
                                -> "LearnQwest Codebase Analysis"
      [] p = "research_topic"   -> "Content Research Report"
      [] p = "project_status"   -> "Project Status Report"
      [] p = "code_cleanup"     -> "Code Cleanup Report"
      [] p = "create_learning"  -> "Learning Materials Report"
      [] p = "assess_quality"   -> "Content Quality Assessment"
      [] p = "refactor_code"    -> "Refactoring Roadmap"
      [] p = "generate_docs"    -> "Documentation Generation Report"
      [] p = "extract_content"  -> "Content Extraction Report"
      [] p = "generate_quiz"    -> "Quiz Generation Report"
      [] OTHER                  -> "Task Execution Report"

synthesize(p, outputs) ==
    [title |-> SynthesizedTitle(p), summary |-> "", raw_outputs |-> outputs,
     error |-> ""]

(***************************************************************************)
(* OutputSynthesizer (ada_output_synthesizer.py).  A result payload is a   *)
(* dict: a function from its keys to their values.  A call returns a value *)
(* or raises: Returned(v) and Raised(e).                                   *)
(***************************************************************************)
Returned(v) == [raised |-> "", value |-> v]

Raised(e) == [raised |-> e, value |-> ""]

\* dict.get(key, default)
Get(dict, key, default) == IF key \in DOMAIN dict THEN dict[key] ELSE default

\* dict[key]: raises KeyError when the key is missing
Subscript(dict, key) ==
    IF key \in DOMAIN dict THEN Returned(dict[key]) ELSE Raised("KeyError")

\* seq[:n]
Truncate(seq, n) == SubSeq(seq, 1, IF Len(seq) < n THEN Len(seq) ELSE n)

\* sep.join(strs)
RECURSIVE Join(_, _)
Join(strs, sep) ==
    IF strs = <<>> THEN ""
    ELSE IF Len(strs) = 1 THEN strs[1]
    ELSE strs[1] \o sep \o Join(Tail(strs), sep)

\* sum(f(x) for x in seq)
RECURSIVE SumOf(_)
SumOf(numbers) == IF numbers = <<>> THEN 0 ELSE Head(numbers) + SumOf(Tail(numbers))

\* one entry of report.sections
Section(title, icon, content, priority, ion) ==
    [title |-> title, icon |-> icon, content |-> content, priority |-> priority,
     ion |-> ion]

\* priority_order.get(s.get("priority", "low"), 3)
priority_order(s) ==
    CASE s.priority = "high"   -> 0
      [] s.priority = "medium" -> 1
      [] s.priority = "low"    -> 2
      [] OTHER                 -> 3

RECURSIVE InsertBySortKey(_, _)
InsertBySortKey(sorted, s) ==
    IF sorted = <<>> THEN <<s>>
    ELSE IF priority_order(s) < priority_order(Head(sorted))
         THEN <<s>> \o sorted
         ELSE <<Head(sorted)>> \o InsertBySortKey(Tail(sorted), s)

\* sections.sort(key=lambda s: priority_order.get(...)): a stable sort
RECURSIVE SortSections(_)
SortSections(sections) ==
    IF sections = <<>> THEN <<>>
    ELSE InsertBySortKey(SortSections(SubSeq(sections, 1, Len(sections) - 1)),
                         sections[Len(sections)])

\* _find_output found an output of that Ion name
Found(outputs, ion_name) == \E i \in 1..Len(outputs) : outputs[i].ion_name = ion_name

\* next((o for o in outputs if o.ion_name == ion_name), None), when found
_find_output(outputs, ion_name) ==
    outputs[CHOOSE i \in 1..Len(outputs) :
                /\ outputs[i].ion_name = ion_name
                /\ \A j \in 1..(i - 1) : outputs[j].ion_name # ion_name]

\* "x_out and x_out.success"
FoundSuccess(outputs, ion_name) ==
    Found(outputs, ion_name) /\ _find_output(outputs, ion_name).success

\* the result of the output "x_out and x_out.success" holds of
ResultOf(outputs, ion_name) == _find_output(outputs, ion_name).result

\* _build_metadata: the counts, the Ion names and the clock reading
_build_metadata(outputs, now) ==
    [total_ions      |-> Len(outputs),
     successful_ions |-> Len(SelectSeq(outputs, LAMBDA o : o.success)),
     failed_ions     |-> Len(SelectSeq(outputs, LAMBDA o : ~o.success)),
     timestamp       |-> now,
     ions_used       |-> [i \in 1..Len(outputs) |-> outputs[i].ion_name]]

\* SynthesizedReport(...): generated_at defaults to datetime.now()
SynthesizedReport(title, summary, sections, metadata, raw_outputs, recommendations, now) ==
    [title |-> title, summary |-> summary, sections |-> sections,
     metadata |-> metadata, raw_outputs |-> raw_outputs,
     recommendations |-> recommendations, generated_at |-> now]

\* the first exception raised while the contents of the sections were built
FirstRaised(contents) ==
    IF \E i \in 1..Len(contents) : contents[i].raised # ""
    THEN contents[CHOOSE i \in 1..Len(contents) :
                      /\ contents[i].raised # ""
                      /\ \A j \in 1..(i - 1) : contents[j].raised = ""].raised
    ELSE ""

\* the lines of one duplicate group: its size and at most three of its files
DuplicateGroupLines(i, group) ==
    LET files     == Get(group, "files", <<>>)
        shown     == Truncate(files, 3)
        file_list == Join([k \in 1..Len(shown) |-> Truncate(shown[k], 30)], ", ")
                        \o (IF Len(files) > 3
                            THEN " (+" \o ToString(Len(files) - 3) \o " more)"
                            ELSE "")
    IN  <<"  " \o ToString(i) \o ". " \o ToString(Get(group, "lines", 0))
              \o " lines across " \o ToString(Len(files)) \o " files",
          "     Files: " \o file_list>>

DuplicateSectionHead(result) ==
    <<"Total duplicates: " \o ToString(Get(result, "duplicates_found", 0)),
      "Lines affected: " \o ToString(Get(result, "total_lines_duplicated", 0)),
      "Space savings potential: " \o Get(result, "space_savings", "0 bytes")>>

DuplicateSectionGroups(groups) ==
    <<"", "Top duplicate groups:">>
        \o Concat([i \in 1..Len(Truncate(groups, 5)) |->
                        DuplicateGroupLines(i, groups[i])])

\* the formatter reading result["groups"] without testing that the key is there
_format_duplicate_section_unguarded(result) ==
    LET groups == Subscript(result, "groups")
    IN  IF groups.raised # "" THEN groups
        ELSE Returned(Join(DuplicateSectionHead(result)
                              \o DuplicateSectionGroups(groups.value), "\n"))

_format_duplicate_section(result) ==
    IF "groups" \in DOMAIN result
    THEN Returned(Join(DuplicateSectionHead(result)
                          \o DuplicateSectionGroups(Subscript(result, "groups").value),
                       "\n"))
    ELSE Returned(Join(DuplicateSectionHead(result), "\n"))

_format_dead_code_section(result) ==
    LET head ==
            <<"Unused functions: " \o ToString(Get(result, "unused_functions", 0)),
              "Unused imports: " \o ToString(Get(result, "unused_imports", 0)),
              "Unused variables: " \o ToString(Get(result, "unused_variables", 0)),
              "Removable lines: " \o ToString(Get(result, "removable_lines", 0))>>
        top  == Truncate(Get(result, "top_unused", <<>>), 5)
    IN  IF "top_unused" \in DOMAIN result
        THEN Returned(Join(head \o <<"", "Top candidates for removal:">>
                             \o [i \in 1..Len(top) |->
                                    "  - " \o Get(top[i], "name", "unknown") \o " in "
                                        \o Get(top[i], "file", "unknown")], "\n"))
        ELSE Returned(Join(head, "\n"))

_format_organization_section(result) ==
    LET head ==
            <<"Files analyzed: " \o ToString(Get(result, "files_analyzed", 0)),
              "Current structure score: "
                  \o (IF "organization_score" \in DOMAIN result
                      THEN ToString(result["organization_score"]) ELSE "N/A")
                  \o "/100">>
        moves == Truncate(Get(result, "suggested_moves", <<>>), 5)
        dirs  == Truncate(Get(result, "new_directories", <<>>), 5)
    IN  Returned(Join(
            head
            \o (IF "suggested_moves" \in DOMAIN result
                THEN <<"", "Suggested reorganizations:">>
                        \o [i \in 1..Len(moves) |->
                               "  - Move " \o Get(moves[i], "file", "?") \o " to "
                                   \o Get(moves[i], "suggested_location", "?")]
                ELSE <<>>)
            \o (IF "new_directories" \in DOMAIN result
                THEN <<"", "Suggested new directories:">>
                        \o [i \in 1..Len(dirs) |-> "  - " \o dirs[i]]
                ELSE <<>>), "\n"))

\* the priority actions of the model's payloads are plain strings
\* ("else: lines.append(f'  {i}. {action}')")
_format_refactoring_section(result) ==
    LET actions == Truncate(Get(result, "priority_actions", <<>>), 7)
    IN  Returned(Join(
            (IF "priority_actions" \in DOMAIN result
             THEN <<"Priority refactoring actions:">>
                     \o [i \in 1..Len(actions) |->
                            "  " \o ToString(i) \o ". " \o actions[i]]
             ELSE <<>>)
            \o (IF "estimated_total_effort" \in DOMAIN result
                THEN <<"", "Total estimated effort: " \o result["estimated_total_effort"]>>
                ELSE <<>>), "\n"))

_synthesize_codebase_analysis(outputs, now) ==
    LET dup      == FoundSuccess(outputs, "duplicate-detector")
        dead     == FoundSuccess(outputs, "dead-code-eliminator")
        group    == FoundSuccess(outputs, "code-grouper")
        refactor == FoundSuccess(outputs, "refactor-planner")
        dup_count    == Get(ResultOf(outputs, "duplicate-detector"), "duplicates_found", 0)
        dead_funcs   == Get(ResultOf(outputs, "dead-code-eliminator"), "unused_functions", 0)
        dead_imports == Get(ResultOf(outputs, "dead-code-eliminator"), "unused_imports", 0)
        misplaced    == Get(ResultOf(outputs, "code-grouper"), "misplaced_files", 0)
        priority_count ==
            Len(Get(ResultOf(outputs, "refactor-planner"), "priority_actions", <<>>))
        total_issues ==
            (IF dup THEN dup_count ELSE 0) + (IF dead THEN dead_funcs + dead_imports ELSE 0)
        summary_parts ==
            (IF dup THEN <<ToString(dup_count) \o " duplicate code blocks">> ELSE <<>>)
            \o (IF dead
                THEN <<ToString(dead_funcs) \o " unused functions, "
                          \o ToString(dead_imports) \o " unused imports">>
                ELSE <<>>)
            \o (IF group /\ misplaced > 0
                THEN <<ToString(misplaced) \o " files could be better organized">>
                ELSE <<>>)
            \o (IF refactor /\ priority_count > 0
                THEN <<ToString(priority_count) \o " refactoring actions recommended">>
                ELSE <<>>)
        recommendations ==
            (IF dup /\ dup_count > 5
             THEN <<"HIGH: Refactor duplicate code to shared utilities">> ELSE <<>>)
            \o (IF dead /\ dead_funcs > 0
                THEN <<"MEDIUM: Remove dead code to reduce maintenance burden">>
                ELSE <<>>)
            \o (IF group /\ misplaced > 0
                THEN <<"LOW: Consider reorganizing file structure">> ELSE <<>>)
        summary ==
            "Codebase analysis complete. Found " \o ToString(total_issues)
                \o " issues: " \o Join(summary_parts, ", ") \o "."
        contents ==
            (IF dup
             THEN <<_format_duplicate_section(ResultOf(outputs, "duplicate-detector"))>>
             ELSE <<>>)
            \o (IF dead
                THEN <<_format_dead_code_section(ResultOf(outputs, "dead-code-eliminator"))>>
                ELSE <<>>)
            \o (IF group
                THEN <<_format_organization_section(ResultOf(outputs, "code-grouper"))>>
                ELSE <<>>)
            \o (IF refactor
                THEN <<_format_refactoring_section(ResultOf(outputs, "refactor-planner"))>>
                ELSE <<>>)
        heads ==
            (IF dup
             THEN <<Section("Duplicate Code", "[DUP]", "",
                            IF dup_count > 5 THEN "high" ELSE "medium",
                            "duplicate-detector")>>
             ELSE <<>>)
            \o (IF dead
                THEN <<Section("Dead Code", "[DEL]", "", "medium",
                               "dead-code-eliminator")>>
                ELSE <<>>)
            \o (IF group
                THEN <<Section("Code Organization", "[ORG]", "", "low", "code-grouper")>>
                ELSE <<>>)
            \o (IF refactor
                THEN <<Section("Refactoring Plan", "[REF]", "", "high",
                               "refactor-planner")>>
                ELSE <<>>)
        sections ==
            [i \in 1..Len(heads) |-> [heads[i] EXCEPT !.content = contents[i].value]]
    IN  IF FirstRaised(contents) # "" THEN Raised(FirstRaised(contents))
        ELSE Returned(SynthesizedReport("LearnQwest Codebase Analysis", summary,
                                        SortSections(sections),
                                        _build_metadata(outputs, now), outputs,
                                        recommendations, now))

\* str(bool)
BoolStr(b) == IF b THEN "True" ELSE "False"

\* _format_generic_output: the head lines; the dump of a non-empty result is
\* the line "Result:" followed by the payload's keys
_format_generic_output(output) ==
    Join(<<"Ion: " \o output.ion_name,
           "Description: " \o output.description,
           "Success: " \o BoolStr(output.success)>>
         \o (IF output.error # "" THEN <<"Error: " \o output.error>> ELSE <<>>)
         \o (IF DOMAIN output.result # {} THEN <<"", "Result:">> ELSE <<>>), "\n")

\* a fallback that lists only the successful outputs
_synthesize_generic_successful_only(outputs, now) ==
    LET successful == SelectSeq(outputs, LAMBDA o : o.success)
    IN  Returned(SynthesizedReport(
            "Task Execution Report",
            "Completed " \o ToString(Len(successful)) \o "/" \o ToString(Len(outputs))
                \o " Ion executions successfully.",
            [i \in 1..Len(successful) |->
                Section("[OK] " \o successful[i].ion_name, "[OK]",
                        _format_generic_output(successful[i]), "medium",
                        successful[i].ion_name)],
            _build_metadata(outputs, now), outputs, <<>>, now))

_synthesize_generic(outputs, now) ==
    LET successful == SelectSeq(outputs, LAMBDA o : o.success)
        failed     == SelectSeq(outputs, LAMBDA o : ~o.success)
        status(o)  == IF o.success THEN "[OK]" ELSE "[XX]"
    IN  Returned(SynthesizedReport(
            "Task Execution Report",
            "Completed " \o ToString(Len(successful)) \o "/" \o ToString(Len(outputs))
                \o " Ion executions successfully.",
            [i \in 1..Len(outputs) |->
                Section(status(outputs[i]) \o " " \o outputs[i].ion_name,
                        status(outputs[i]), _format_generic_output(outputs[i]),
                        IF outputs[i].success THEN "medium" ELSE "high",
                        outputs[i].ion_name)],
            _build_metadata(outputs, now), outputs,
            IF failed # <<>>
            THEN <<"HIGH: " \o ToString(Len(failed)) \o " Ion(s) failed - review errors">>
            ELSE <<>>,
            now))

\* the position of each lower-case letter in the alphabet
LowerIndex ==
    [ch \in {SubSeq(LowerCase, i, i) : i \in 1..Len(LowerCase)} |->
        CHOOSE i \in 1..Len(LowerCase) : SubSeq(LowerCase, i, i) = ch]

UpperChar(ch) ==
    IF ch \in DOMAIN LowerIndex
    THEN SubSeq(UpperCase, LowerIndex[ch], LowerIndex[ch])
    ELSE ch

\* str.upper()
RECURSIVE Upper(_)
Upper(str) ==
    IF str = "" THEN ""
    ELSE UpperChar(SubSeq(str, 1, 1)) \o Upper(SubSeq(str, 2, Len(str)))

\* ion_name.replace("-", " ").title(), for the lower-case Ion names
RECURSIVE TitleOfIonName(_, _)
TitleOfIonName(str, wordStart) ==
    IF str = "" THEN ""
    ELSE IF SubSeq(str, 1, 1) = "-"
         THEN " " \o TitleOfIonName(SubSeq(str, 2, Len(str)), TRUE)
         ELSE (IF wordStart THEN UpperChar(SubSeq(str, 1, 1)) ELSE SubSeq(str, 1, 1))
                \o TitleOfIonName(SubSeq(str, 2, Len(str)), FALSE)

\* f"{x:.1f}" of a whole number
OneDecimal(n) == ToString(n) \o ".0"

\* the head lines of the formatters of the sections below; the optional
\* blocks of these formatters read keys none of the model's payloads holds
_format_search_results(result) ==
    Join(<<"Total results: " \o ToString(Len(Get(result, "results", <<>>))),
           "Sources searched: " \o Join(Get(result, "sources", <<"unknown">>), ", "),
           "">>, "\n")

_format_quality_assessment(result) ==
    LET assessments == Get(result, "assessments", <<>>)
    IN  IF assessments # <<>>
        THEN Join(<<"Items assessed: " \o ToString(Len(assessments)), "">>, "\n")
        ELSE ""

_format_ranked_sources(search_result, quality_result) ==
    LET results == Truncate(Get(search_result, "results", <<>>), 5)
    IN  Join(<<"Top recommended sources (by quality):">>
             \o [i \in 1..Len(results) |->
                    "  " \o ToString(i) \o ". " \o Get(results[i], "title", "Untitled")],
             "\n")

_synthesize_content_research(outputs, now) ==
    LET search  == FoundSuccess(outputs, "omnisearch")
        quality == FoundSuccess(outputs, "quality-assessor")
        total_results ==
            IF search THEN Len(Get(ResultOf(outputs, "omnisearch"), "results", <<>>))
            ELSE 0
        assessments ==
            IF quality THEN Get(ResultOf(outputs, "quality-assessor"), "assessments", <<>>)
            ELSE <<>>
        high_quality_count ==
            Len(SelectSeq(assessments, LAMBDA a : Get(a, "score", 0) >= 80))
    IN  Returned(SynthesizedReport(
            "Content Research Report",
            "Research complete. Found " \o ToString(total_results) \o " sources, "
                \o ToString(high_quality_count) \o " high-quality.",
            (IF search
             THEN <<Section("Search Results", "[SRC]",
                            _format_search_results(ResultOf(outputs, "omnisearch")),
                            "high", "omnisearch")>>
             ELSE <<>>)
            \o (IF quality
                THEN <<Section("Quality Assessment", "[QUA]",
                               _format_quality_assessment(
                                   ResultOf(outputs, "quality-assessor")),
                               "high", "quality-assessor")>>
                ELSE <<>>)
            \o (IF Found(outputs, "omnisearch") /\ Found(outputs, "quality-assessor")
                THEN <<Section("Ranked Recommendations", "[TOP]",
                               _format_ranked_sources(
                                   ResultOf(outputs, "omnisearch"),
                                   ResultOf(outputs, "quality-assessor")),
                               "high", "combined")>>
                ELSE <<>>),
            _build_metadata(outputs, now), outputs,
            (IF quality /\ high_quality_count > 0
             THEN <<"HIGH: " \o ToString(high_quality_count)
                       \o " high-quality sources identified for immediate use">>
             ELSE <<>>)
            \o (IF quality /\ total_results > high_quality_count
                THEN <<"LOW: " \o ToString(total_results - high_quality_count)
                          \o " sources need verification before use">>
                ELSE <<>>),
            now))

_format_git_status(result) ==
    Join(<<"Branch: " \o Get(result, "branch", "unknown"),
           "Last commit: " \o Get(result, "last_commit", "unknown"),
           "Uncommitted changes: " \o ToString(Get(result, "uncommitted_changes", 0)),
           "Untracked files: " \o ToString(Get(result, "untracked_files", 0))>>, "\n")

_format_health_status(result) ==
    "Overall score: " \o ToString(Get(result, "score", 0)) \o "/100"

_format_activity_log(result) ==
    "Recent activities: " \o ToString(Len(Get(result, "activities", <<>>)))

_format_test_results(result) ==
    Join(<<"Total tests: "
               \o ToString(Get(result, "passed", 0) + Get(result, "failed", 0)),
           "Passed: " \o ToString(Get(result, "passed", 0)),
           "Failed: " \o ToString(Get(result, "failed", 0))>>, "\n")

_synthesize_project_status(outputs, now) ==
    LET git      == FoundSuccess(outputs, "git-status")
        health   == FoundSuccess(outputs, "health-check")
        activity == FoundSuccess(outputs, "activity-log")
        test     == FoundSuccess(outputs, "test-runner")
        uncommitted  == Get(ResultOf(outputs, "git-status"), "uncommitted_changes", 0)
        health_score == Get(ResultOf(outputs, "health-check"), "score", 100)
        passed       == Get(ResultOf(outputs, "test-runner"), "passed", 0)
        failed       == Get(ResultOf(outputs, "test-runner"), "failed", 0)
        health_word ==
            IF health /\ health_score < 50 THEN "CRITICAL"
            ELSE IF health /\ health_score < 80 THEN "WARNING"
            ELSE "HEALTHY"
        overall_health ==
            IF test /\ failed > 0 /\ health_word = "HEALTHY" THEN "WARNING"
            ELSE health_word
        status_parts ==
            (IF git
             THEN <<"Branch: " \o Get(ResultOf(outputs, "git-status"), "branch", "unknown")>>
                    \o (IF uncommitted > 0
                        THEN <<ToString(uncommitted) \o " uncommitted changes">>
                        ELSE <<>>)
             ELSE <<>>)
            \o (IF health THEN <<"Health: " \o ToString(health_score) \o "%">> ELSE <<>>)
            \o (IF test
                THEN <<"Tests: " \o ToString(passed) \o " passed, " \o ToString(failed)
                          \o " failed">>
                ELSE <<>>)
    IN  Returned(SynthesizedReport(
            "Project Status Report",
            "Project Status: " \o overall_health \o ". " \o Join(status_parts, ", ")
                \o ".",
            (IF git
             THEN <<Section("Git Status", "[GIT]",
                            _format_git_status(ResultOf(outputs, "git-status")),
                            "medium", "git-status")>>
             ELSE <<>>)
            \o (IF health
                THEN <<Section("System Health", "[HLT]",
                               _format_health_status(ResultOf(outputs, "health-check")),
                               IF health_score < 80 THEN "high" ELSE "low",
                               "health-check")>>
                ELSE <<>>)
            \o (IF activity
                THEN <<Section("Recent Activity", "[ACT]",
                               _format_activity_log(ResultOf(outputs, "activity-log")),
                               "low", "activity-log")>>
                ELSE <<>>)
            \o (IF test
                THEN <<Section("Test Results", "[TST]",
                               _format_test_results(ResultOf(outputs, "test-runner")),
                               IF failed > 0 THEN "high" ELSE "low", "test-runner")>>
                ELSE <<>>),
            _build_metadata(outputs, now), outputs,
            (IF git /\ uncommitted > 0
             THEN <<"LOW: Commit or stash uncommitted changes">> ELSE <<>>)
            \o (IF health /\ health_score < 50
                THEN <<"HIGH: Address critical health issues immediately">>
                ELSE IF health /\ health_score < 80
                     THEN <<"MEDIUM: Review health warnings">>
                     ELSE <<>>)
            \o (IF test /\ failed > 0 THEN <<"HIGH: Fix failing tests">> ELSE <<>>),
            now))

_format_cleanup_findings(result) ==
    Join(<<"Issues found: " \o ToString(Get(result, "issues_found", 0)),
           "Lines removable: " \o ToString(Get(result, "lines_removable", 0))>>, "\n")

_determine_cleanup_priority(result) ==
    IF Get(result, "issues_found", 0) > 10 THEN "high"
    ELSE IF Get(result, "issues_found", 0) > 3 THEN "medium"
    ELSE "low"

_synthesize_code_cleanup(outputs, now) ==
    LET successful    == SelectSeq(outputs, LAMBDA o : o.success)
        total_issues  ==
            SumOf([i \in 1..Len(successful) |->
                      Get(successful[i].result, "issues_found", 0)])
        total_savings ==
            SumOf([i \in 1..Len(successful) |->
                      Get(successful[i].result, "lines_removable", 0)])
    IN  Returned(SynthesizedReport(
            "Code Cleanup Report",
            "Code cleanup analysis complete. " \o ToString(total_issues)
                \o " issues found, " \o ToString(total_savings)
                \o " lines can be cleaned up.",
            SortSections(
                [i \in 1..Len(successful) |->
                    Section(TitleOfIonName(successful[i].ion_name, TRUE),
                            "[" \o Upper(Truncate(successful[i].ion_name, 3)) \o "]",
                            _format_cleanup_findings(successful[i].result),
                            _determine_cleanup_priority(successful[i].result),
                            successful[i].ion_name)]),
            _build_metadata(outputs, now), outputs,
            (IF total_issues > 10
             THEN <<"HIGH: Significant cleanup opportunity - schedule dedicated cleanup sprint">>
             ELSE <<>>)
            \o (IF total_savings > 500
                THEN <<"MEDIUM: Can remove " \o ToString(total_savings)
                          \o " lines - reduces maintenance burden">>
                ELSE <<>>),
            now))

_format_content_extraction(result) ==
    Join(<<"Items extracted: " \o ToString(Get(result, "items_extracted", 0)),
           "Source type: " \o Get(result, "source_type", "unknown"),
           "Total duration: " \o Get(result, "total_duration", "N/A")>>, "\n")

_format_module_generation(result) ==
    "Modules created: " \o ToString(Get(result, "modules_created", 0))

\* the questions of a payload of the model are of one type and one difficulty,
\* so that each distribution has one line
_format_quiz_generation(result) ==
    LET questions == Get(result, "questions", <<>>)
        shown     == Truncate(questions, 3)
    IN  Join(<<"Questions generated: "
                  \o ToString(IF questions # <<>> THEN Len(questions)
                              ELSE Get(result, "questions_generated", 0))>>
             \o (IF questions # <<>>
                 THEN <<"", "Sample questions:">>
                      \o [i \in 1..Len(shown) |->
                             "  " \o ToString(i) \o ". ["
                                 \o Get(shown[i], "type", "unknown") \o "] ["
                                 \o Get(shown[i], "difficulty", "medium") \o "] "
                                 \o Truncate(Get(shown[i], "question", "No text"), 80)
                                 \o "..."]
                      \o (IF Len(questions) > 3
                          THEN <<"  ... and " \o ToString(Len(questions) - 3)
                                    \o " more questions">>
                          ELSE <<>>)
                      \o <<"", "Question types:",
                           "  - " \o Get(questions[1], "type", "unknown") \o ": "
                               \o ToString(Len(questions)),
                           "", "Difficulty distribution:",
                           "  - " \o Get(questions[1], "difficulty", "medium") \o ": "
                               \o ToString(Len(questions))>>
                 ELSE <<>>), "\n")

_synthesize_learning_materials(outputs, now) ==
    LET extract == FoundSuccess(outputs, "content-extractor")
        module  == FoundSuccess(outputs, "module-generator")
        quiz    == FoundSuccess(outputs, "quiz-generator")
        content_items ==
            IF extract
            THEN Get(ResultOf(outputs, "content-extractor"), "items_extracted", 0)
            ELSE 0
        modules_created ==
            IF module
            THEN Get(ResultOf(outputs, "module-generator"), "modules_created", 0)
            ELSE 0
        questions_generated ==
            IF ~quiz THEN 0
            ELSE IF Get(ResultOf(outputs, "quiz-generator"), "questions_generated", 0) # 0
                 THEN Get(ResultOf(outputs, "quiz-generator"), "questions_generated", 0)
                 ELSE Len(Get(ResultOf(outputs, "quiz-generator"), "questions", <<>>))
    IN  Returned(SynthesizedReport(
            "Learning Materials Report",
            "Learning materials ready. " \o ToString(content_items)
                \o " content items extracted, " \o ToString(modules_created)
                \o " modules created, " \o ToString(questions_generated)
                \o " quiz questions generated.",
            (IF extract
             THEN <<Section("Content Extraction", "[EXT]",
                            _format_content_extraction(
                                ResultOf(outputs, "content-extractor")),
                            "high", "content-extractor")>>
             ELSE <<>>)
            \o (IF module
                THEN <<Section("Generated Modules", "[MOD]",
                               _format_module_generation(
                                   ResultOf(outputs, "module-generator")),
                               "high", "module-generator")>>
                ELSE <<>>)
            \o (IF quiz
                THEN <<Section("Quiz Questions", "[QIZ]",
                               _format_quiz_generation(
                                   ResultOf(outputs, "quiz-generator")),
                               "medium", "quiz-generator")>>
                ELSE <<>>),
            _build_metadata(outputs, now), outputs,
            (IF modules_created > 0
             THEN <<"HIGH: " \o ToString(modules_created)
                       \o " modules ready for review and deployment">>
             ELSE <<>>)
            \o (IF questions_generated > 0
                THEN <<"MEDIUM: Review " \o ToString(questions_generated)
                          \o " generated questions for accuracy">>
                ELSE <<>>),
            now))

\* the sections the fusion functions below add for the outputs of other Ions
GenericSections(outputs, skip, successOnly, prefix, icon, priority) ==
    LET others ==
            SelectSeq(outputs,
                      LAMBDA o : o.ion_name # skip /\ (successOnly => o.success))
    IN  [i \in 1..Len(others) |->
            Section((IF prefix # "" THEN prefix
                     ELSE IF others[i].success THEN "[OK] " ELSE "[XX] ")
                        \o others[i].ion_name,
                    IF icon # "" THEN icon
                    ELSE IF others[i].success THEN "[OK]" ELSE "[XX]",
                    _format_generic_output(others[i]), priority, others[i].ion_name)]

\* dimension_scores is a sequence of [name, score], in the order of the dict
_synthesize_quality_assessment(outputs, now) ==
    LET quality == FoundSuccess(outputs, "quality-assessor")
        result  == ResultOf(outputs, "quality-assessor")
        overall_score    == Get(result, "overall_score", 0)
        dimension_scores == Get(result, "dimension_scores", <<>>)
        word(score) ==
            IF score >= 80 THEN "EXCELLENT" ELSE IF score >= 60 THEN "GOOD"
            ELSE "NEEDS WORK"
        low_dims == SelectSeq(dimension_scores, LAMBDA d : d.score < 50)
        ion_recs == Get(result, "recommendations", <<>>)
    IN  Returned(SynthesizedReport(
            "Content Quality Assessment",
            IF quality
            THEN "Content Quality Score: " \o OneDecimal(overall_score) \o "/100"
            ELSE "Quality assessment could not be completed",
            (IF quality /\ dimension_scores # <<>>
             THEN <<Section("Quality Dimensions", "[QA]",
                            Join([i \in 1..Len(dimension_scores) |->
                                     TitleOfIonName(dimension_scores[i].name, TRUE)
                                         \o ": " \o OneDecimal(dimension_scores[i].score)
                                         \o "/100 (" \o word(dimension_scores[i].score)
                                         \o ")"], "\n"),
                            "high", "quality-assessor")>>
             ELSE <<>>)
            \o GenericSections(outputs, "quality-assessor", FALSE, "", "", "medium"),
            _build_metadata(outputs, now), outputs,
            IF quality
            THEN (IF overall_score < 60
                  THEN <<"HIGH: Content quality needs improvement">> ELSE <<>>)
                 \o [i \in 1..Len(low_dims) |->
                        "MEDIUM: Improve " \o low_dims[i].name \o " (currently "
                            \o ToString(low_dims[i].score) \o "/100)"]
                 \o [i \in 1..Len(ion_recs) |-> "LOW: " \o ion_recs[i]]
            ELSE <<"HIGH: Re-run quality assessment with valid content">>,
            now))

\* the "- description" lines of a list of refactoring items
RefactorItemLines(items, n) ==
    Join([i \in 1..Len(Truncate(items, n)) |->
             "- " \o Get(items[i], "description", "Unknown")], "\n")

_synthesize_refactoring(outputs, now) ==
    LET refactor == FoundSuccess(outputs, "refactor-planner")
        result   == ResultOf(outputs, "refactor-planner")
        estimated_hours == Get(result, "estimated_hours", 0)
        high   == Get(result, "high_priority", <<>>)
        medium == Get(result, "medium_priority", <<>>)
        low    == Get(result, "low_priority", <<>>)
    IN  Returned(SynthesizedReport(
            "Refactoring Roadmap",
            IF refactor
            THEN "Refactoring Roadmap: " \o ToString(Get(result, "total_items", 0))
                    \o " items identified, "
                    \o ToString(Get(result, "high_priority_count", 0))
                    \o " high-priority"
                    \o (IF estimated_hours > 0
                        THEN " (Est. " \o ToString(estimated_hours) \o "h total)"
                        ELSE "")
            ELSE "Refactoring analysis completed",
            (IF refactor /\ high # <<>>
             THEN <<Section("High Priority Refactors", "[!!!]",
                            RefactorItemLines(high, 5), "high", "refactor-planner")>>
             ELSE <<>>)
            \o (IF refactor /\ medium # <<>>
                THEN <<Section("Medium Priority Refactors", "[!!]",
                               RefactorItemLines(medium, 5), "medium",
                               "refactor-planner")>>
                ELSE <<>>)
            \o (IF refactor /\ low # <<>>
                THEN <<Section("Low Priority Refactors", "[!]",
                               RefactorItemLines(low, 3), "low", "refactor-planner")>>
                ELSE <<>>)
            \o GenericSections(outputs, "refactor-planner", TRUE, "Supporting: ", "[+]",
                               "low"),
            _build_metadata(outputs, now), outputs,
            IF refactor /\ high # <<>>
            THEN <<"HIGH: Address " \o ToString(Len(high))
                      \o " critical refactoring items">>
            ELSE <<>>,
            now))

\* the keys _format_doc_output prints are held by no payload of the model
_format_doc_output(result) == ""

_synthesize_documentation(outputs, now) ==
    LET successful == SelectSeq(outputs, LAMBDA o : o.success)
        docs_generated ==
            SumOf([i \in 1..Len(successful) |->
                      Get(successful[i].result, "docs_generated", 1)])
    IN  Returned(SynthesizedReport(
            "Documentation Generation Report",
            "Documentation generated: " \o ToString(docs_generated) \o " document(s)",
            [i \in 1..Len(successful) |->
                Section("Generated: " \o successful[i].ion_name, "[DOC]",
                        _format_doc_output(successful[i].result), "medium",
                        successful[i].ion_name)],
            _build_metadata(outputs, now), outputs,
            IF docs_generated = 0
            THEN <<"HIGH: No documentation was generated - check inputs">>
            ELSE <<>>,
            now))

_synthesize_content_extraction(outputs, now) ==
    LET successful == SelectSeq(outputs, LAMBDA o : o.success)
        failed     == SelectSeq(outputs, LAMBDA o : ~o.success)
        total_items ==
            SumOf([i \in 1..Len(successful) |->
                      Get(successful[i].result, "items_extracted",
                          Get(successful[i].result, "results_count", 1))])
        content(result) ==
            IF Get(result, "title", "") # "" THEN "Title: " \o result["title"]
            ELSE "Content extracted"
    IN  Returned(SynthesizedReport(
            "Content Extraction Report",
            "Content extraction complete: " \o ToString(total_items)
                \o " item(s) extracted",
            [i \in 1..Len(outputs) |->
                IF outputs[i].success
                THEN Section("Extracted: " \o outputs[i].ion_name, "[EXT]",
                             content(outputs[i].result), "medium", outputs[i].ion_name)
                ELSE Section("Failed: " \o outputs[i].ion_name, "[XX]",
                             "Error: " \o (IF outputs[i].error # "" THEN outputs[i].error
                                           ELSE "Unknown error"),
                             "high", outputs[i].ion_name)],
            _build_metadata(outputs, now), outputs,
            [i \in 1..Len(failed) |->
                "HIGH: " \o failed[i].ion_name \o " extraction failed"],
            now))

\* the sets of standards and difficulties of the model's payloads have one
\* member each, so that sorted(...) is the member itself
_synthesize_quiz_generation(outputs, now) ==
    LET quiz      == FoundSuccess(outputs, "quiz-generator")
        questions == Get(ResultOf(outputs, "quiz-generator"), "questions", <<>>)
        shown     == Truncate(questions, 5)
        teks_aligned ==
            SelectSeq(questions, LAMBDA q : Get(q, "teks_alignment", "") # "")
    IN  Returned(SynthesizedReport(
            "Quiz Generation Report",
            IF quiz
            THEN "Generated " \o ToString(Len(questions)) \o " quiz question(s)"
            ELSE "Quiz generation failed or incomplete",
            IF ~quiz THEN <<>>
            ELSE (IF questions # <<>>
                  THEN <<Section("Generated Questions", "[Q]",
                                 Join([i \in 1..Len(shown) |->
                                          ToString(i) \o ". ["
                                              \o Get(shown[i], "type", "unknown")
                                              \o "] ["
                                              \o Get(shown[i], "difficulty", "medium")
                                              \o "] "
                                              \o Truncate(Get(shown[i], "question",
                                                              "No text"), 60)
                                              \o "..."], "\n"),
                                 "high", "quiz-generator")>>
                  ELSE <<>>)
                 \o (IF teks_aligned # <<>>
                     THEN <<Section("TEKS Alignment", "[TEKS]",
                                    "Standards covered: "
                                        \o teks_aligned[1]["teks_alignment"],
                                    "medium", "quiz-generator")>>
                     ELSE <<>>)
                 \o (IF questions # <<>>
                     THEN <<Section("Difficulty Distribution", "[D]",
                                    Get(questions[1], "difficulty", "medium") \o ": "
                                        \o ToString(Len(questions)),
                                    "low", "quiz-generator")>>
                     ELSE <<>>),
            _build_metadata(outputs, now), outputs,
            IF quiz THEN <<>>
            ELSE <<"HIGH: Review quiz generation input and try again">>,
            now))

\* self.synthesizers: the keys of the dict and the fusion function of each
Synthesizers ==
    {"codebase_analysis", "analyze_codebase", "content_research", "research_topic",
     "project_status", "code_cleanup", "learning_materials", "create_learning",
     "assess_quality", "quality_assessment", "refactor_code", "refactoring",
     "generate_docs", "documentation", "extract_content", "content_extraction",
     "generate_quiz", "quiz_generation", "find_duplicates", "find_dead_code",
     "organize_code"}

\* synthesize_fn = self.synthesizers.get(task_pattern, self._synthesize_generic);
\* return synthesize_fn(ion_outputs)
synthesize_fn(task_pattern, ion_outputs, now) ==
    CASE task_pattern \in {"codebase_analysis", "analyze_codebase", "find_duplicates",
                           "find_dead_code", "organize_code"}
            -> _synthesize_codebase_analysis(ion_outputs, now)
      [] task_pattern \in {"content_research", "research_topic"}
            -> _synthesize_content_research(ion_outputs, now)
      [] task_pattern = "project_status"
            -> _synthesize_project_status(ion_outputs, now)
      [] task_pattern = "code_cleanup"
            -> _synthesize_code_cleanup(ion_outputs, now)
      [] task_pattern \in {"learning_materials", "create_learning"}
            -> _synthesize_learning_materials(ion_outputs, now)
      [] task_pattern \in {"assess_quality", "quality_assessment"}
            -> _synthesize_quality_assessment(ion_outputs, now)
      [] task_pattern \in {"refactor_code", "refactoring"}
            -> _synthesize_refactoring(ion_outputs, now)
      [] task_pattern \in {"generate_docs", "documentation"}
            -> _synthesize_documentation(ion_outputs, now)
      [] task_pattern \in {"extract_content", "content_extraction"}
            -> _synthesize_content_extraction(ion_outputs, now)
      [] task_pattern \in {"generate_quiz", "quiz_generation"}
            -> _synthesize_quiz_generation(ion_outputs, now)
      [] OTHER
            -> _synthesize_generic(ion_outputs, now)

(***************************************************************************)
(* OutputSynthesizer.synthesize called on its own: twice with the same     *)
(* pattern and the same list of outputs, while the clock runs.             *)
(***************************************************************************)
\* the outputs handed to the synthesizer: successful and failed ones, with
\* payloads that hold some of the keys the fusion functions read and none
SynthesizerOutputs ==
    {IonOutput("duplicate-detector", "Find duplicate code patterns", TRUE,
               [duplicates_found |-> 7], ""),
     IonOutput("duplicate-detector", "Find duplicate code patterns", TRUE,
               [duplicates_found |-> 2,
                groups |-> <<[lines |-> 12, files |-> <<"a.py", "b.py">>]>>], ""),
     IonOutput("dead-code-eliminator", "Identify unused code", TRUE,
               [unused_functions |-> 3, issues_found |-> 11], ""),
     IonOutput("code-grouper", "Analyze code organization", TRUE, <<>>, ""),
     IonOutput("refactor-planner", "Generate refactoring recommendations", TRUE,
               [priority_actions |-> <<"merge utils">>,
                high_priority |-> <<[description |-> "split parser"]>>,
                low_priority |-> <<[description |-> "rename x"]>>], ""),
     IonOutput("git-status", "Read git state", TRUE, [branch |-> "main"], ""),
     IonOutput("health-check", "Check health", TRUE, [score |-> 40], ""),
     IonOutput("quiz-generator", "Generate quiz about topic", TRUE,
               [questions |-> <<[question |-> "What is 2+2?",
                                 teks_alignment |-> "5.3A"]>>], ""),
     IonOutput("quality-assessor", "Assess content quality", TRUE,
               [overall_score |-> 55,
                dimension_scores |-> <<[name |-> "clarity", score |-> 40]>>], ""),
     IonOutput("content-extractor", "Extract content from source", TRUE,
               [items_extracted |-> 2, title |-> "Intro"], ""),
     IonOutput("omnisearch", "Search for content about topic", FALSE, <<>>,
               "timeout")}

\* the lists of outputs: of no output, of one and of two
OutputLists ==
    {<<>>} \cup {<<o>> : o \in SynthesizerOutputs}
           \cup {<<o1, o2>> : o1 \in SynthesizerOutputs, o2 \in SynthesizerOutputs}

\* the synthesizer's caller: the arguments it calls synthesize with and the
\* outcomes of the calls made so far
SynthesizerCalls(task_pattern, ion_outputs, reports) ==
    [task_pattern |-> task_pattern, ion_outputs |-> ion_outputs, reports |-> reports]

\* no synthesize call is made, and the clock stands at its origin
SynthesizerNotCalled ==
    /\ clock = 0
    /\ synthesizer = SynthesizerCalls("", <<>>, <<>>)

(***************************************************************************)
(* The parts of the state after construction, before any call.             *)
(***************************************************************************)
\* TaskDecomposer.__init__: no plan has been returned
DecomposerNotCalled ==
    /\ parallel_groups = <<>>
    /\ task_plans = <<>>

\* no execute call has started: its locals hold nothing yet
ExecuteNotStarted ==
    /\ original_request = ""
    /\ task_counter = 0
    /\ pattern = ""
    /\ execution_waves = <<>>
    /\ wave_num = 0
    /\ all_outputs = <<>>
    /\ previous_wave_results = <<>>
    /\ metrics = NoMetrics
    /\ co = <<>>
    /\ invocations = <<>>
    /\ exc = ""
    /\ report = NoReport
    /\ trace = FALSE
    /\ execution_trace = <<>>

\* a FeedbackLoop without history, and no score update made
FeedbackEmpty ==
    /\ entries = <<>>
    /\ feedback_file = <<>>
    /\ rate_updates = 0

\* RoutingSpine.__init__, and no process_task coroutine running
SpineConstructed ==
    /\ routing_spine = _register_default_routes
    /\ routed = NoRouting
    /\ reporters = [r \in Reporters |-> IdleReporter]

(***************************************************************************)
(* create_execution_plan applied to a list of subtasks on its own.         *)
(***************************************************************************)
InitPlan ==
    /\ pc = "plan_input"
    /\ \E n \in 0..MaxTasks : \E likeId \in BOOLEAN :
            \E deps \in [1..n -> SUBSET PlanTaskIds] :
                subtasks = PlanInput(n, likeId, deps)
    /\ ExecuteNotStarted
    /\ SynthesizerNotCalled
    /\ FeedbackEmpty
    /\ DecomposerNotCalled
    /\ task_queue = TaskQueue(DefaultMaxConcurrent)
    /\ callers = [c \in Callers |-> IdleCaller]
    /\ SpineConstructed

ApplyCreateExecutionPlan ==
    /\ pc = "plan_input"
    /\ execution_waves' = create_execution_plan(subtasks)
    /\ pc' = "plan_output"
    /\ UNCHANGED <<task_counter, pattern, subtasks, wave_num, all_outputs,
                   previous_wave_results, metrics, co, invocations, entries, feedback_file,
                   rate_updates, exc, report,
                   trace, execution_trace,
                   original_request, orchestratorVars, synthesizerVars, decomposerVars>>

\* "parallel_groups = self._calculate_parallel_groups(subtasks)" applied to the
\* same list of subtasks
ApplyCalculateParallelGroups ==
    /\ pc = "plan_output"
    /\ parallel_groups' = _calculate_parallel_groups(subtasks)
    /\ pc' = "groups_output"
    /\ UNCHANGED <<executeVarsButPc, entries, feedback_file, rate_updates,
                   orchestratorVars, synthesizerVars, task_plans>>

NextPlan == ApplyCreateExecutionPlan \/ ApplyCalculateParallelGroups

SpecPlan == InitPlan /\ [][NextPlan]_vars

(***************************************************************************)
(* ADACoordinator.execute, from a freshly constructed coordinator.         *)
(***************************************************************************)
Init ==
    /\ pc = "start"
    /\ subtasks = <<>>
    /\ ExecuteNotStarted
    /\ SynthesizerNotCalled
    /\ FeedbackEmpty
    /\ DecomposerNotCalled
    /\ task_queue = TaskQueue(DefaultMaxConcurrent)
    /\ callers = [c \in Callers |-> IdleCaller]
    /\ SpineConstructed

\* Step 1: execute is called with its trace argument;
\* task_plan = self.decomposer.decompose(task)
Decompose ==
    /\ pc = "start"
    /\ \E text \in TaskTexts :
        LET p    == _identify_pattern(text)
            plan == decompose(p, task_counter)
        IN  /\ original_request' = text
            /\ pattern' = p
            /\ subtasks' = plan
            /\ task_counter' = task_counter + Len(plan)
            /\ metrics' = [metrics EXCEPT !.total_subtasks = Len(plan)]
            /\ co' = [t \in {plan[i].task_id : i \in 1..Len(plan)} |-> IdleCoroutine]
            /\ invocations' = [t \in {plan[i].task_id : i \in 1..Len(plan)} |-> 0]
            /\ parallel_groups' = TaskPlan(text, p, plan).parallel_groups
            /\ task_plans' = Append(task_plans, TaskPlan(text, p, plan))
    /\ trace' \in BOOLEAN
    /\ pc' = "plan"
    /\ UNCHANGED <<execution_waves, wave_num, all_outputs, previous_wave_results,
                   entries, feedback_file, rate_updates, exc, report, execution_trace,
                   orchestratorVars, synthesizerVars>>

\* Step 2: execution_waves = create_execution_plan(task_plan.subtasks), and the
\* initialisation of all_outputs and previous_wave_results before the loop
CreateExecutionPlan ==
    /\ pc = "plan"
    /\ execution_waves' = create_execution_plan(subtasks)
    /\ metrics' = [metrics EXCEPT !.waves_executed = Len(create_execution_plan(subtasks))]
    /\ all_outputs' = <<>>
    /\ previous_wave_results' = <<>>
    /\ wave_num' = 1
    /\ execution_trace' = <<>>
    /\ pc' = "loop"
    /\ UNCHANGED <<task_counter, pattern, subtasks, co, invocations, entries, feedback_file,
                   rate_updates, exc, report, trace,
                   original_request, orchestratorVars, synthesizerVars, decomposerVars>>

\* asyncio.wait_for(self._execute_wave(wave, ...)): _execute_wave creates one
\* _execute_subtask coroutine per subtask of the optimized wave and awaits gather
StartWave ==
    /\ pc = "loop"
    /\ wave_num <= Len(execution_waves)
    /\ co' = [t \in DOMAIN co |->
                IF \E s \in Range(optimize_wave(CurrentWave)) : s.task_id = t
                THEN Coroutine("created", NoOutput, <<>>, "")
                ELSE co[t]]
    /\ execution_trace' = IF trace
                          THEN OpenTraceEntries(execution_trace, CurrentWave, wave_num)
                          ELSE execution_trace
    /\ pc' = "await"
    /\ UNCHANGED <<task_counter, pattern, subtasks, execution_waves, wave_num,
                   all_outputs, previous_wave_results, metrics, invocations,
                   entries, feedback_file, rate_updates, exc, report, trace,
                   original_request, orchestratorVars, synthesizerVars, decomposerVars>>

\* _execute_subtask from its start to its first suspension: is_real_ion decides
\* between the call of execute_ion and the simulated output; an exception raised
\* there is caught by "except Exception as e"
RunSubtask(subtask) ==
    /\ pc = "await"
    /\ subtask \in Range(CurrentWave)
    /\ co[subtask.task_id].state = "created"
    /\ \/ /\ co' = [co EXCEPT ![subtask.task_id] =
                        Coroutine("invoking", NoOutput, previous_wave_results, "")]
          /\ invocations' = [invocations EXCEPT ![subtask.task_id] = @ + 1]
       \/ /\ co' = [co EXCEPT ![subtask.task_id] =
                        Coroutine("returned", SimulatedOutput(subtask), <<>>, "")]
          /\ UNCHANGED invocations
       \/ /\ \E e \in ExecutorErrors :
                co' = [co EXCEPT ![subtask.task_id] =
                        Coroutine("returned", ExceptionOutput(subtask, e), <<>>, e)]
          /\ UNCHANGED invocations
    /\ UNCHANGED <<pc, task_counter, pattern, subtasks, execution_waves, wave_num,
                   all_outputs, previous_wave_results, metrics, entries, feedback_file,
                   rate_updates, exc, report,
                   trace, execution_trace,
                   original_request, orchestratorVars, synthesizerVars, decomposerVars>>

\* execute_ion returns: the trace entry is closed, feedback is recorded and the
\* IonOutput is built
ExecutorReturns(subtask) ==
    /\ pc = "await"
    /\ subtask \in Range(CurrentWave)
    /\ co[subtask.task_id].state = "invoking"
    /\ \E success \in BOOLEAN, write_error \in WriteErrors \cup {""} :
        LET recorded == record_and_write(entries, feedback_file,
                                         FeedbackEntry(subtask, success), write_error)
        IN  /\ entries' = recorded.entries
            /\ feedback_file' = recorded.feedback_file
            /\ co' = [co EXCEPT ![subtask.task_id] =
                        IF recorded.raised = ""
                        THEN Coroutine("returned", RealOutput(subtask, success),
                                       co[subtask.task_id].previous_results, "")
                        ELSE Coroutine("returned",
                                       ExceptionOutput(subtask, recorded.raised),
                                       <<>>, recorded.raised)]
            /\ execution_trace' =
                    IF trace
                    THEN CloseTraceEntry(execution_trace, subtask, wave_num, success)
                    ELSE execution_trace
    /\ UNCHANGED <<pc, task_counter, pattern, subtasks, execution_waves, wave_num,
                   all_outputs, previous_wave_results, metrics, invocations,
                   rate_updates, exc, report, trace,
                   original_request, orchestratorVars, synthesizerVars, decomposerVars>>

\* execute_ion raises: "except Exception as e" builds the failed output
ExecutorRaises(subtask) ==
    /\ pc = "await"
    /\ subtask \in Range(CurrentWave)
    /\ co[subtask.task_id].state = "invoking"
    /\ \E e \in ExecutorErrors :
        co' = [co EXCEPT ![subtask.task_id] =
                Coroutine("returned", ExceptionOutput(subtask, e),
                          co[subtask.task_id].previous_results, e)]
    /\ UNCHANGED <<pc, task_counter, pattern, subtasks, execution_waves, wave_num,
                   all_outputs, previous_wave_results, metrics, invocations,
                   entries, feedback_file, rate_updates, exc, report,
                   trace, execution_trace,
                   original_request, orchestratorVars, synthesizerVars, decomposerVars>>

\* the outputs _execute_wave returns: one per subtask, in the optimized order
WaveOutputs(wave) ==
    [i \in 1..Len(wave) |-> co[optimize_wave(wave)[i].task_id].output]

\* wait_for returns wave_outputs: extend all_outputs, store the successful
\* results for the next wave, update the metrics
WaveCompletes ==
    /\ pc = "await"
    /\ GatherDone(CurrentWave)
    /\ all_outputs' = all_outputs \o WaveOutputs(CurrentWave)
    /\ previous_wave_results' =
            StoreResults(previous_wave_results, WaveOutputs(CurrentWave))
    /\ metrics' = [metrics EXCEPT
            !.successful_subtasks = @ + CountSuccess(WaveOutputs(CurrentWave)),
            !.failed_subtasks = @ + Len(CurrentWave)
                                  - CountSuccess(WaveOutputs(CurrentWave))]
    /\ wave_num' = wave_num + 1
    /\ pc' = "loop"
    /\ UNCHANGED <<task_counter, pattern, subtasks, execution_waves, co,
                   invocations, entries, feedback_file, rate_updates, exc, report,
                   trace, execution_trace,
                   original_request, orchestratorVars, synthesizerVars, decomposerVars>>

\* the wave's budget elapses while gather is pending: wait_for cancels the wave
\* and raises TimeoutError; "for subtask in wave: all_outputs.append(...)"
WaveTimesOut ==
    /\ pc = "await"
    /\ ~GatherDone(CurrentWave)
    /\ co' = [t \in DOMAIN co |->
                IF /\ \E s \in Range(CurrentWave) : s.task_id = t
                   /\ co[t].state # "returned"
                THEN [co[t] EXCEPT !.state = "cancelled"]
                ELSE co[t]]
    /\ all_outputs' = all_outputs \o
            [i \in 1..Len(TimedOutSubtasks(CurrentWave)) |->
                TimeoutOutput(TimedOutSubtasks(CurrentWave)[i])]
    /\ metrics' = [metrics EXCEPT
            !.failed_subtasks = @ + Len(TimedOutSubtasks(CurrentWave))]
    /\ wave_num' = WaveAfterTimeout(wave_num)
    /\ pc' = "loop"
    /\ UNCHANGED <<task_counter, pattern, subtasks, execution_waves,
                   previous_wave_results, invocations, entries, feedback_file, rate_updates,
                   exc, report,
                   trace, execution_trace,
                   original_request, orchestratorVars, synthesizerVars, decomposerVars>>

\* Steps 4 and 5 after the last wave: synthesize, record history, return report
SynthesizeAndReturn ==
    /\ pc = "loop"
    /\ wave_num > Len(execution_waves)
    /\ report' = synthesize(pattern, all_outputs)
    /\ pc' = "returned"
    /\ UNCHANGED <<task_counter, pattern, subtasks, execution_waves, wave_num,
                   all_outputs, previous_wave_results, metrics, co, invocations,
                   entries, feedback_file, rate_updates, exc,
                   trace, execution_trace,
                   original_request, orchestratorVars, synthesizerVars, decomposerVars>>

\* the positions of the try block at which a statement of execute itself
\* (decomposition, wave planning, the wave loop, synthesis) can raise
InTryBlock == pc \in {"start", "plan", "loop"}

TopLevelErrors == {"decompose failed"}

RaiseInExecute ==
    /\ InTryBlock
    /\ \E e \in TopLevelErrors : exc' = e
    /\ pc' = "except"
    /\ UNCHANGED <<task_counter, pattern, subtasks, execution_waves, wave_num,
                   all_outputs, previous_wave_results, metrics, co, invocations,
                   entries, feedback_file, rate_updates, report,
                   trace, execution_trace,
                   original_request, orchestratorVars, synthesizerVars, decomposerVars>>

\* "except Exception as e: ... return SynthesizedReport(title="Execution Error", ...)"
ExceptHandler ==
    /\ pc = "except"
    /\ report' = ErrorReport(exc)
    /\ pc' = "returned"
    /\ UNCHANGED <<task_counter, pattern, subtasks, execution_waves, wave_num,
                   all_outputs, previous_wave_results, metrics, co, invocations,
                   entries, feedback_file, rate_updates, exc,
                   trace, execution_trace,
                   original_request, orchestratorVars, synthesizerVars, decomposerVars>>

Next ==
    \/ Decompose
    \/ CreateExecutionPlan
    \/ StartWave
    \/ \E i \in 1..Len(subtasks) : RunSubtask(subtasks[i])
    \/ \E i \in 1..Len(subtasks) : ExecutorReturns(subtasks[i])
    \/ \E i \in 1..Len(subtasks) : ExecutorRaises(subtasks[i])
    \/ WaveCompletes
    \/ WaveTimesOut
    \/ SynthesizeAndReturn
    \/ RaiseInExecute
    \/ ExceptHandler

Spec == Init /\ [][Next]_vars

(***************************************************************************)
(* The TaskQueue under concurrent callers: ADAOrchestrator.submit_task     *)
(* (add_task), _process_queue (get_next_task) and process_task             *)
(* (complete_task, fail_task), from a freshly constructed queue.           *)
(***************************************************************************)
\* faulty variant: complete_task and fail_task without "if task_id in
\* self.active_tasks": active_tasks.pop raises KeyError for an unknown id
finish_task_body_unguarded(tq, task_id, status) ==
    IF task_id \in DOMAIN tq.active_tasks
    THEN [task_queue |-> [tq EXCEPT
                            !.active_tasks = DictPop(@, task_id),
                            !.completed_tasks =
                                DictSet(@, task_id,
                                        [tq.active_tasks[task_id]
                                            EXCEPT !.status = status])],
          raised |-> ""]
    ELSE [task_queue |-> tq, raised |-> "KeyError"]

\* the bodies of complete_task and fail_task inside the lock: the task moves
\* from active_tasks to completed_tasks with the status named; for an id that
\* is not in active_tasks nothing is done
finish_task_body(tq, task_id, status) ==
    IF task_id \in DOMAIN tq.active_tasks
    THEN [task_queue |-> [tq EXCEPT
                            !.active_tasks = DictPop(@, task_id),
                            !.completed_tasks =
                                DictSet(@, task_id,
                                        [tq.active_tasks[task_id]
                                            EXCEPT !.status = status])],
          raised |-> ""]
    ELSE [task_queue |-> tq, raised |-> ""]

InitQueue ==
    /\ pc = "start"
    /\ subtasks = <<>>
    /\ ExecuteNotStarted
    /\ SynthesizerNotCalled
    /\ FeedbackEmpty
    /\ DecomposerNotCalled
    /\ SpineConstructed
    /\ \E max_concurrent \in 0..MaxConcurrent : task_queue = TaskQueue(max_concurrent)
    /\ callers = [c \in Callers |-> IdleCaller]

\* the ids of the tasks handed to the queue so far (uuid4: never reused)
SubmittedIds ==
    {task_queue.queue[i].id : i \in 1..Len(task_queue.queue)}
        \cup DOMAIN task_queue.active_tasks
        \cup DOMAIN task_queue.completed_tasks
        \cup {callers[c].task.id : c \in {d \in Callers : callers[d].op = "add_task"}}

\* a coroutine calls a method of the queue and reaches "async with self._lock"
CallQueueMethod(c) ==
    /\ callers[c].op = ""
    /\ \/ \E id \in (1..MaxSubmitted) \ SubmittedIds : \E priority \in TaskPriority :
            callers' = [callers EXCEPT ![c] =
                Caller("add_task", LearningTask(id, priority, "queued"), 0)]
       \/ callers' = [callers EXCEPT ![c] = Caller("get_next_task", NoTask, 0)]
       \/ \E id \in 1..MaxSubmitted : \E op \in {"complete_task", "fail_task"} :
            callers' = [callers EXCEPT ![c] = Caller(op, NoTask, id)]
    /\ UNCHANGED <<coordinatorVars, synthesizerVars, decomposerVars, spineVars, task_queue>>

\* asyncio.Lock.acquire: granted only while no caller is inside the lock
AcquireLock(c) ==
    /\ callers[c].op # ""
    /\ task_queue._lock = ""
    /\ task_queue' = [task_queue EXCEPT !._lock = c]
    /\ UNCHANGED <<coordinatorVars, synthesizerVars, decomposerVars, spineVars, callers>>

\* the body of add_task, and the release of the lock
add_task(c) ==
    /\ callers[c].op = "add_task"
    /\ task_queue._lock = c
    /\ task_queue' = [add_task_body(task_queue, callers[c].task).task_queue
                        EXCEPT !._lock = ""]
    /\ callers' = [callers EXCEPT ![c] = IdleCaller]
    /\ UNCHANGED <<coordinatorVars, synthesizerVars, decomposerVars, spineVars>>

\* the body of get_next_task, and the release of the lock
get_next_task(c) ==
    /\ callers[c].op = "get_next_task"
    /\ task_queue._lock = c
    /\ task_queue' = [get_next_task_body(task_queue).task_queue EXCEPT !._lock = ""]
    /\ callers' = [callers EXCEPT ![c] = IdleCaller]
    /\ UNCHANGED <<coordinatorVars, synthesizerVars, decomposerVars, spineVars>>

\* the bodies of complete_task and fail_task: the task moves from
\* active_tasks to completed_tasks with the status named
FinishTask(c, op, status) ==
    /\ callers[c].op = op
    /\ task_queue._lock = c
    /\ task_queue' =
            [finish_task_body(task_queue, callers[c].task_id, status).task_queue
                EXCEPT !._lock = ""]
    /\ callers' = [callers EXCEPT ![c] = IdleCaller]
    /\ UNCHANGED <<coordinatorVars, synthesizerVars, decomposerVars, spineVars>>

complete_task(c) == FinishTask(c, "complete_task", "completed")

fail_task(c) == FinishTask(c, "fail_task", "failed")

NextQueue ==
    \/ \E c \in Callers : CallQueueMethod(c)
    \/ \E c \in Callers : AcquireLock(c)
    \/ \E c \in Callers : add_task(c)
    \/ \E c \in Callers : get_next_task(c)
    \/ \E c \in Callers : complete_task(c)
    \/ \E c \in Callers : fail_task(c)

SpecQueue == InitQueue /\ [][NextQueue]_vars

(***************************************************************************)
(* The RoutingSpine and the FeedbackLoop under the orchestrator: route     *)
(* calls, and process_task coroutines that route their task, suspend in    *)
(* execute_with_agents and then report the outcome.                        *)
(***************************************************************************)
\* the texts handed to route: one for each content type and capability the
\* detectors tell apart, and the empty string
RouteTexts ==
    {"", "find duplicates in main.py", "What is photosynthesis?",
     "https://youtu.be/abc", "refactor utils.py", "Create a quiz", "import os"}

\* the descriptions of the tasks the process_task coroutines work on
TaskDescriptions == {"find duplicates in main.py", "What is photosynthesis?"}

InitSpine ==
    /\ pc = "start"
    /\ subtasks = <<>>
    /\ ExecuteNotStarted
    /\ SynthesizerNotCalled
    /\ FeedbackEmpty
    /\ DecomposerNotCalled
    /\ task_queue = TaskQueue(DefaultMaxConcurrent)
    /\ callers = [c \in Callers |-> IdleCaller]
    /\ SpineConstructed

\* a call of routing_spine.route(content)
Route ==
    /\ \E content \in {Str(text) : text \in RouteTexts} \cup {None} :
            routed' = route(content, routing_spine)
    /\ UNCHANGED <<coordinatorVars, synthesizerVars, decomposerVars, queueVars, routing_spine, reporters>>

\* process_task up to "results = await self.execute_with_agents(task)"
StartProcessTask(r) ==
    /\ reporters[r].state = "idle"
    /\ Len(entries) + Cardinality({q \in Reporters : reporters[q].state = "executing"})
            < MaxReports
    /\ \E text \in TaskDescriptions :
            reporters' = [reporters EXCEPT ![r] =
                Reporter("executing", detect_content_type(text),
                         TopFive(route(Str(text), routing_spine).agents))]
    /\ UNCHANGED <<coordinatorVars, synthesizerVars, decomposerVars, queueVars, routing_spine, routed>>

\* execute_with_agents returned: feedback_loop.record(success=True) and the
\* score update of every assigned agent
ProcessTaskSucceeds(r) ==
    /\ reporters[r].state = "executing"
    /\ \E write_error \in WriteErrors \cup {""} :
        LET recorded == record_and_write(entries, feedback_file,
                            TaskFeedbackEntry(r, reporters[r].content_type,
                                              reporters[r].assigned_agents, TRUE),
                            write_error)
        IN  /\ entries' = recorded.entries
            /\ feedback_file' = recorded.feedback_file
    /\ routing_spine' = UpdateAll(routing_spine, reporters[r].assigned_agents, TRUE)
    /\ rate_updates' = rate_updates + Len(reporters[r].assigned_agents)
    /\ reporters' = [reporters EXCEPT ![r] = IdleReporter]
    /\ UNCHANGED <<executeVars, synthesizerVars, decomposerVars, queueVars, routed>>

\* execute_with_agents raised: feedback_loop.record(success=False) and the
\* score update of every assigned agent
ProcessTaskFails(r) ==
    /\ reporters[r].state = "executing"
    /\ \E write_error \in WriteErrors \cup {""} :
        LET recorded == record_and_write(entries, feedback_file,
                            TaskFeedbackEntry(r, "unknown",
                                              reporters[r].assigned_agents, FALSE),
                            write_error)
        IN  /\ entries' = recorded.entries
            /\ feedback_file' = recorded.feedback_file
    /\ routing_spine' = UpdateAll(routing_spine, reporters[r].assigned_agents, FALSE)
    /\ rate_updates' = rate_updates + Len(reporters[r].assigned_agents)
    /\ reporters' = [reporters EXCEPT ![r] = IdleReporter]
    /\ UNCHANGED <<executeVars, synthesizerVars, decomposerVars, queueVars, routed>>

NextSpine ==
    \/ Route
    \/ \E r \in Reporters : StartProcessTask(r)
    \/ \E r \in Reporters : ProcessTaskSucceeds(r)
    \/ \E r \in Reporters : ProcessTaskFails(r)

SpecSpine == InitSpine /\ [][NextSpine]_vars

(***************************************************************************)
(* Vocabulary of the properties.                                           *)
(***************************************************************************)
\* the indices of the waves in which the subtask with this task id appears
WavesHolding(task_id) ==
    {w \in 1..Len(execution_waves) :
        \E k \in 1..Len(execution_waves[w]) : execution_waves[w][k].task_id = task_id}

\* how many times the subtask appears in all the waves together
Occurrences(task_id) ==
    Len(SelectSeq(Concat(execution_waves), LAMBDA t : t.task_id = task_id))

\* every dependency names a subtask of the list
DependenciesClosed ==
    \A t \in Range(subtasks) :
        t.depends_on \subseteq {u.task_id : u \in Range(subtasks)}

\* what is left after removing, again and again, the subtasks none of whose
\* dependencies is left: empty exactly when the dependency graph has no cycle
RECURSIVE Unsortable(_)
Unsortable(tasks) ==
    LET free == {t \in tasks : t.depends_on \cap {u.task_id : u \in tasks} = {}}
    IN  IF free = {} THEN tasks ELSE Unsortable(tasks \ free)

Acyclic == Unsortable(Range(subtasks)) = {}

(***************************************************************************)
(* C1: for every acyclic list of subtasks whose depends_on entries are     *)
(* task ids of the list, create_execution_plan puts every subtask in       *)
(* exactly one wave, puts nothing else in a wave, and gives every subtask  *)
(* a wave index strictly greater than that of each subtask it depends on.  *)
(***************************************************************************)
C1_WavesRespectDependencies ==
    (pc = "plan_output" /\ DependenciesClosed /\ Acyclic) =>
        /\ \A t \in Range(subtasks) : Occurrences(t.task_id) = 1
        /\ \A w \in 1..Len(execution_waves) :
                Range(execution_waves[w]) \subseteq Range(subtasks)
        /\ \A t \in Range(subtasks) : \A dep \in t.depends_on :
                \A wt \in WavesHolding(t.task_id) : \A wd \in WavesHolding(dep) :
                    wd < wt

\* the entries of all_outputs that carry the Ion name and description of a subtask
OutputsOf(s) ==
    SelectSeq(all_outputs,
              LAMBDA o : o.ion_name = s.ion_name /\ o.description = s.description)

IsTimeoutRecord(o) == ~o.success /\ o.error = "Execution timeout"

RecordedTimedOut(s) == \E o \in Range(OutputsOf(s)) : IsTimeoutRecord(o)

\* the coroutine of the subtask has been created (the subtask is dispatched)
Dispatched(s) == co[s.task_id].state # "idle"

\* the coroutine of the subtask has returned its IonOutput
ProducedOutput(s) == co[s.task_id].state = "returned"

\* the loop of execute has left the wave with this index behind
WaveResolved(w) == w < wave_num

\* every wave has been run and no statement of execute raised
AllWavesRun ==
    \/ pc = "loop" /\ wave_num > Len(execution_waves)
    \/ pc = "returned" /\ exc = ""

(***************************************************************************)
(* C2: no subtask of a later wave is dispatched before every subtask of    *)
(* each earlier wave has produced its output or is recorded as timed out.  *)
(***************************************************************************)
C2_WavesStrictlySequential ==
    \A s \in Range(subtasks) : \A u \in Range(subtasks) :
        \A ws \in WavesHolding(s.task_id) : \A wu \in WavesHolding(u.task_id) :
            (ws < wu /\ Dispatched(u)) => (ProducedOutput(s) \/ RecordedTimedOut(s))

\* a subtask of wave 2 is running after a wave 1 of several subtasks returned
C2_Witness ==
    /\ pc = "await"
    /\ wave_num = 2
    /\ Len(execution_waves[1]) > 1
    /\ \A s \in Range(execution_waves[1]) : ProducedOutput(s)
    /\ \E u \in Range(execution_waves[2]) : co[u.task_id].state = "invoking"

(***************************************************************************)
(* C3: when a wave's budget elapses, the subtasks of the wave that had     *)
(* already completed keep their real outputs in the final output list,     *)
(* and only the subtasks still pending are recorded as timed out.          *)
(***************************************************************************)
C3_CompletedKeepRealOutputs ==
    \A s \in Range(subtasks) :
        /\ (ProducedOutput(s) /\ \E w \in WavesHolding(s.task_id) : WaveResolved(w))
                => co[s.task_id].output \in Range(all_outputs)
        /\ RecordedTimedOut(s) => co[s.task_id].state = "cancelled"

(***************************************************************************)
(* C4: when a wave's budget elapses, every subtask of the wave that is     *)
(* still outstanding is recorded as a failed output with the error         *)
(* 'Execution timeout', and the loop goes on to the next wave.             *)
(***************************************************************************)
C4_TimeoutRecordedAndPlanContinues ==
    /\ [](\A s \in Range(subtasks) :
            co[s.task_id].state = "cancelled" => RecordedTimedOut(s))
    /\ [][(\E s \in Range(subtasks) :
                co[s.task_id].state # "cancelled" /\ co'[s.task_id].state = "cancelled")
            => (pc' = "loop" /\ wave_num' = wave_num + 1 /\ exc' = "")]_vars

\* a subtask of wave 1 was cancelled by the timeout and wave 2 is running
C4_Witness ==
    \E s \in Range(subtasks) : \E u \in Range(subtasks) :
        /\ co[s.task_id].state = "cancelled"
        /\ RecordedTimedOut(s)
        /\ co[u.task_id].state = "invoking"
        /\ \E ws \in WavesHolding(s.task_id) : \E wu \in WavesHolding(u.task_id) : ws < wu

(***************************************************************************)
(* C5: once all waves have run, the output list handed to the synthesizer  *)
(* holds exactly one IonOutput per subtask of the plan (succeeded, failed, *)
(* raised or timed out) and nothing else.                                  *)
(***************************************************************************)
C5_OneOutputPerSubtask ==
    AllWavesRun =>
        /\ Len(all_outputs) = Len(subtasks)
        /\ \A s \in Range(subtasks) : Len(OutputsOf(s)) = 1
        /\ pc = "returned" => report.raw_outputs = all_outputs

\* a returned report whose outputs mix a success, a reported failure, a caught
\* exception and a timeout
C5_Witness ==
    /\ pc = "returned"
    /\ exc = ""
    /\ Len(subtasks) = 4
    /\ \E o \in Range(report.raw_outputs) : o.success /\ o.result.kind = "payload"
    /\ \E o \in Range(report.raw_outputs) : ~o.success /\ o.result.kind = "failure"
    /\ \E o \in Range(report.raw_outputs) : o.error \in ExecutorErrors
    /\ \E o \in Range(report.raw_outputs) : IsTimeoutRecord(o)

\* the wave with this index was ended by its time budget
WaveTimedOut(w) == \E s \in Range(execution_waves[w]) : RecordedTimedOut(s)

\* the output is the failed output of a caught exception with text e
IsExceptionRecord(o, s, e) ==
    /\ o.ion_name = s.ion_name
    /\ o.description = s.description
    /\ ~o.success
    /\ o.error = e
    /\ o.result = [kind |-> "error", text |-> e]

(***************************************************************************)
(* C6: an exception raised while invoking the executor of a subtask        *)
(* becomes a failed IonOutput with the error text, for that subtask only:  *)
(* the step leaves the sibling coroutines, the output list and the loop    *)
(* of execute as they were, the outputs of a wave that returns reach the   *)
(* output list (the failed one and the siblings' own), and every later     *)
(* wave is still dispatched.                                               *)
(***************************************************************************)
C6_ExceptionBecomesFailedOutput ==
    /\ [](\A s \in Range(subtasks) :
            co[s.task_id].e # "" =>
                /\ ProducedOutput(s)
                /\ IsExceptionRecord(co[s.task_id].output, s, co[s.task_id].e))
    /\ [][\A s \in Range(subtasks) :
            (co[s.task_id].e = "" /\ co'[s.task_id].e # "") =>
                /\ \A u \in Range(subtasks) : u # s => co'[u.task_id] = co[u.task_id]
                /\ pc' = pc /\ wave_num' = wave_num /\ exc' = exc
                /\ all_outputs' = all_outputs]_vars
    /\ [](\A s \in Range(subtasks) : \A w \in WavesHolding(s.task_id) :
            (co[s.task_id].e # "" /\ WaveResolved(w) /\ ~WaveTimedOut(w)) =>
                \A u \in Range(execution_waves[w]) :
                    co[u.task_id].output \in Range(all_outputs))
    /\ [](AllWavesRun => \A u \in Range(subtasks) : Dispatched(u))

\* the executor of one subtask of wave 1 raised, a sibling returned its real
\* successful output, both are in the output list, and wave 2 has run
C6_Witness ==
    /\ pc = "returned"
    /\ exc = ""
    /\ \E s \in Range(execution_waves[1]) : \E u \in Range(execution_waves[1]) :
        /\ co[s.task_id].e # ""
        /\ invocations[s.task_id] = 1
        /\ co[u.task_id].output.success
        /\ co[u.task_id].output.result.kind = "payload"
        /\ co[s.task_id].output \in Range(report.raw_outputs)
        /\ co[u.task_id].output \in Range(report.raw_outputs)
    /\ \E v \in Range(execution_waves[2]) : ProducedOutput(v)

(***************************************************************************)
(* C7: within one execute call the executor of each subtask is invoked at  *)
(* most once; nothing is dispatched again after a failure, an exception    *)
(* or a timeout.                                                           *)
(***************************************************************************)
C7_InvokedAtMostOnce ==
    /\ \A t \in DOMAIN invocations : invocations[t] <= 1
    /\ \A s \in Range(subtasks) : Occurrences(s.task_id) <= 1

\* execute returned after the executors of wave 1 were invoked once each and
\* ended in a timeout, a reported failure or an exception
C7_Witness ==
    /\ pc = "returned"
    /\ exc = ""
    /\ \E s \in Range(subtasks) :
        /\ invocations[s.task_id] = 1
        /\ co[s.task_id].state = "cancelled"
    /\ \E s \in Range(subtasks) :
        /\ invocations[s.task_id] = 1
        /\ ProducedOutput(s)
        /\ ~co[s.task_id].output.success

(***************************************************************************)
(* C8: every subtask outcome (success, reported failure, exception,        *)
(* simulated execution, timeout) gives one entry appended to the Feedback  *)
(* Store and one score update of the Adaptive Router.                      *)
(***************************************************************************)
C8_EveryOutcomeRecorded ==
    AllWavesRun =>
        /\ Len(entries) = Len(all_outputs)
        /\ rate_updates = Len(all_outputs)

(***************************************************************************)
(* C9: the prior-results context passed to a subtask of wave n holds,      *)
(* under the executor's base name (its name without '-ion'), the result of *)
(* every successful output of the waves before n, and holds no result of   *)
(* a failed, raised or timed-out output.                                   *)
(***************************************************************************)
\* the subtask an output of all_outputs belongs to is in a wave before w
OutputBeforeWave(o, w) ==
    \E u \in Range(subtasks) :
        /\ o.ion_name = u.ion_name
        /\ o.description = u.description
        /\ \E wu \in WavesHolding(u.task_id) : wu < w

C9_ContextHoldsSuccessfulResultsOnly ==
    \A s \in Range(subtasks) : \A w \in WavesHolding(s.task_id) :
        invocations[s.task_id] > 0 =>
            LET ctx == co[s.task_id].previous_results IN
            /\ \A o \in Range(all_outputs) :
                (OutputBeforeWave(o, w) /\ o.success) =>
                    /\ BaseName(_resolve_ion_name(o.ion_name)) \in DOMAIN ctx
                    /\ ctx[BaseName(_resolve_ion_name(o.ion_name))] = o.result
            /\ \A k \in DOMAIN ctx :
                /\ \A o \in Range(all_outputs) : ~o.success => ctx[k] # o.result
                /\ \A u \in Range(subtasks) :
                    ~co[u.task_id].output.success => ctx[k] # co[u.task_id].output.result

\* a subtask of wave 2 was invoked with a context holding the result of a
\* successful output of wave 1 while another output of wave 1 had failed
C9_Witness ==
    \E s \in Range(subtasks) :
        /\ invocations[s.task_id] = 1
        /\ 2 \in WavesHolding(s.task_id)
        /\ DOMAIN co[s.task_id].previous_results # {}
        /\ \E o \in Range(all_outputs) : ~o.success /\ o.result.kind = "failure"
        /\ \E o \in Range(all_outputs) : ~o.success /\ o.error \in ExecutorErrors
        /\ \E o \in Range(all_outputs) :
                o.success /\ o.ion_name \in DOMAIN co[s.task_id].previous_results

(***************************************************************************)
(* C10: execute never propagates an exception: when decomposition, wave    *)
(* planning, wave execution or synthesis raises, it returns a report       *)
(* titled 'Execution Error' with empty raw_outputs and the error text in   *)
(* its summary.                                                            *)
(***************************************************************************)
C10_ErrorsBecomeErrorReport ==
    /\ pc \in {"start", "plan", "loop", "await", "except", "returned"}
    /\ (pc = "returned" /\ exc # "") =>
            /\ report.title = "Execution Error"
            /\ report.raw_outputs = <<>>
            /\ EndsWith(report.summary, exc)
    /\ (pc = "returned" /\ exc = "") => report.title = SynthesizedTitle(pattern)

\* a statement of execute raised after outputs had been collected, and the
\* error report was returned
C10_Witness ==
    /\ pc = "returned"
    /\ exc # ""
    /\ all_outputs # <<>>
    /\ report.title = "Execution Error"

(***************************************************************************)
(* Vocabulary of C11.                                                      *)
(***************************************************************************)
\* the subtasks that can never become ready: what is left after removing,
\* again and again, the subtasks all of whose dependencies were removed before
RECURSIVE NeverReady(_, _)
NeverReady(tasks, done) ==
    LET free == {t \in tasks : t.depends_on \subseteq done}
    IN  IF free = {} THEN tasks
        ELSE NeverReady(tasks \ free, done \cup {t.task_id : t \in free})

\* a dependency cycle or a dependency on an id that is not in the list
Degraded == NeverReady(Range(subtasks), {}) # {}

(***************************************************************************)
(* C11: for every list of subtasks with a dependency cycle or a dependency *)
(* on a non-existent id, create_execution_plan terminates with every       *)
(* subtask in exactly one wave, the subtasks that can never become ready   *)
(* are all in the last wave, and the value returned to the caller carries  *)
(* a diagnostic of the degraded plan.                                      *)
(***************************************************************************)
C11_DegradedPlanFlaggedToCaller ==
    (pc = "plan_output" /\ Degraded) =>
        /\ \A t \in Range(subtasks) : Occurrences(t.task_id) = 1
        /\ \A t \in NeverReady(Range(subtasks), {}) :
                WavesHolding(t.task_id) = {Len(execution_waves)}
        /\ PrintedWarnings(subtasks, {}) >= 1
        /\ ReturnedDiagnostics(subtasks) # {}

\* the part of C11 the code does keep: termination, the forced last wave and
\* the printed warning
C11_ForcedLastWaveAndWarning ==
    (pc = "plan_output" /\ Degraded) =>
        /\ \A t \in Range(subtasks) : Occurrences(t.task_id) = 1
        /\ \A t \in NeverReady(Range(subtasks), {}) :
                WavesHolding(t.task_id) = {Len(execution_waves)}
        /\ PrintedWarnings(subtasks, {}) >= 1

(***************************************************************************)
(* Vocabulary of C12.                                                      *)
(***************************************************************************)
\* the trace entries of a subtask: those of its Ion name in one of its waves
TraceEntriesOf(s) ==
    {i \in 1..Len(execution_trace) :
        /\ execution_trace[i].ion_name = s.ion_name
        /\ execution_trace[i].wave \in WavesHolding(s.task_id)}

TraceEntryClosed(entry) ==
    /\ entry.end_time # "None"
    /\ entry.status \in {"SUCCESS", "FAILED"}

(***************************************************************************)
(* C12: with tracing enabled, every dispatched subtask has exactly one     *)
(* trace entry, opened in state STARTED, and once execute has returned     *)
(* every trace entry has an end time and the status SUCCESS or FAILED,     *)
(* SUCCESS exactly when the output of its subtask has success = True.      *)
(***************************************************************************)
C12_TraceEntriesOpenedAndClosed ==
    trace =>
        /\ \A s \in Range(subtasks) :
                Dispatched(s) => Cardinality(TraceEntriesOf(s)) = 1
        /\ pc = "returned" =>
                \A s \in Range(subtasks) : \A i \in TraceEntriesOf(s) :
                    /\ TraceEntryClosed(execution_trace[i])
                    /\ \A o \in Range(OutputsOf(s)) :
                            (execution_trace[i].status = "SUCCESS") <=> o.success

\* the part of C12 that holds: one entry per dispatched subtask, and an entry
\* closed by _execute_subtask agrees with the output the coroutine returned
C12_TraceEntriesOpenedAtDispatch ==
    trace =>
        \A s \in Range(subtasks) :
            /\ Dispatched(s) => Cardinality(TraceEntriesOf(s)) = 1
            /\ \A i \in TraceEntriesOf(s) :
                    TraceEntryClosed(execution_trace[i]) =>
                        /\ ProducedOutput(s)
                        /\ (execution_trace[i].status = "SUCCESS")
                                <=> co[s.task_id].output.success

(***************************************************************************)
(* C13: under every interleaving of add_task, get_next_task, complete_task *)
(* and fail_task by concurrent callers, the number of tasks in             *)
(* active_tasks never exceeds max_concurrent.                              *)
(***************************************************************************)
C13_ActiveTasksWithinCeiling ==
    Cardinality(DOMAIN task_queue.active_tasks) <= task_queue.max_concurrent

\* get_next_task has filled active_tasks up to the ceiling, a task is still
\* queued, and one caller is inside get_next_task while the other caller waits
\* for the lock to do the same
C13_Witness ==
    /\ task_queue.max_concurrent >= 1
    /\ Cardinality(DOMAIN task_queue.active_tasks) = task_queue.max_concurrent
    /\ task_queue.queue # <<>>
    /\ \E c \in Callers : \E d \in Callers \ {c} :
            /\ callers[c].op = "get_next_task" /\ task_queue._lock = c
            /\ callers[d].op = "get_next_task"

(***************************************************************************)
(* Vocabulary of C14.                                                      *)
(***************************************************************************)
\* this step is the return of execute_ion in the coroutine of a subtask, where
\* _execute_subtask calls feedback_loop.record
SubtaskRecords(t) ==
    /\ t \in DOMAIN co
    /\ t \in DOMAIN co'
    /\ co[t].state = "invoking"
    /\ co'[t].state = "returned"
    /\ co'[t].e = ""

\* this step is the end of a process_task coroutine, where it calls
\* feedback_loop.record and update_success_rate
TaskReports(r) ==
    /\ reporters[r].state = "executing"
    /\ reporters'[r].state = "idle"

\* the entry list grew by exactly one entry, the old entries untouched
OneEntryAdded ==
    /\ Len(entries') = Len(entries) + 1
    /\ SubSeq(entries', 1, Len(entries)) = entries

\* every route of an agent of this report moved from its current rate by one
\* moving-average update, and no other rate changed
RatesUpdatedOnce(r) ==
    /\ Len(routing_spine') = Len(routing_spine)
    /\ \A i \in 1..Len(routing_spine) :
            IF \E k \in 1..Len(reporters[r].assigned_agents) :
                    reporters[r].assigned_agents[k] = routing_spine[i].agent_name
            THEN routing_spine'[i].success_rate =
                    MovingAverage(routing_spine[i].success_rate,
                                  entries'[Len(entries')].success)
            ELSE routing_spine'[i] = routing_spine[i]

C14_WitnessScoreUpdates ==
    /\ Len(entries) = 2
    /\ entries[1].task_id # entries[2].task_id
    /\ \E i \in 1..Len(routing_spine) :
            routing_spine[i].success_rate =
                MovingAverage(MovingAverage(RateOne, entries[1].success),
                              entries[2].success)
            /\ routing_spine[i].success_rate # RateOne

(***************************************************************************)
(* Vocabulary of C15 and C16.                                              *)
(***************************************************************************)
\* the positions, in registration order, of the routes that handle the content
\* type or have the capability
MatchingRoutes(content_type, capability, routes) ==
    {i \in 1..Len(routes) :
        \/ content_type \in routes[i].handles_content
        \/ capability \in routes[i].capabilities}

\* the routes that match what the detectors find in the text
MatchingRoutesOf(text, routes) ==
    MatchingRoutes(detect_content_type(text), detect_required_capability(text), routes)

\* priority x success_rate, twice that when both the type and the capability match
ExpectedScore(content_type, capability, r) ==
    IF content_type \in r.handles_content /\ capability \in r.capabilities
    THEN 2 * (r.priority * r.success_rate)
    ELSE r.priority * r.success_rate

\* the registration position of the route of this agent name (0 when there is
\* none)
PositionOf(agent_name, routes) ==
    IF \E i \in 1..Len(routes) : routes[i].agent_name = agent_name
    THEN CHOOSE i \in 1..Len(routes) :
            /\ routes[i].agent_name = agent_name
            /\ \A j \in 1..(i - 1) : routes[j].agent_name # agent_name
    ELSE 0

\* the list names the matching routes, each once, by descending score, equal
\* scores in registration order
RankedMatches(agents, content_type, capability, routes) ==
    /\ {PositionOf(agents[k], routes) : k \in 1..Len(agents)}
            = MatchingRoutes(content_type, capability, routes)
    /\ Len(agents) = Cardinality(MatchingRoutes(content_type, capability, routes))
    /\ \A k \in 1..(Len(agents) - 1) :
            LET this == routes[PositionOf(agents[k], routes)]
                next == routes[PositionOf(agents[k + 1], routes)]
            IN  \/ ExpectedScore(content_type, capability, this)
                        > ExpectedScore(content_type, capability, next)
                \/ /\ ExpectedScore(content_type, capability, this)
                        = ExpectedScore(content_type, capability, next)
                   /\ PositionOf(agents[k], routes) < PositionOf(agents[k + 1], routes)

\* the list is the ranking of the routes that match what the detectors find
RankedMatchesOf(agents, text, routes) ==
    RankedMatches(agents, detect_content_type(text),
                  detect_required_capability(text), routes)

(***************************************************************************)
(* C15: route returns a non-empty list for every input, the empty string   *)
(* and None included, and never raises; when no registered route matches   *)
(* the detected content type or capability, the list is exactly the        *)
(* fallback executor name.                                                 *)
(***************************************************************************)
C15_RouteNeverEmptyNeverRaises ==
    routed.called =>
        /\ routed.raised = ""
        /\ routed.agents # <<>>
        /\ (routed.content.type = "str"
                /\ MatchingRoutesOf(routed.content.value, routing_spine) = {})
                => routed.agents = <<"general-learning-agent">>

\* the part of C15 that holds: for every str, the empty string included, route
\* returns a non-empty list
C15_RouteOfStrNeverEmpty ==
    (routed.called /\ routed.content.type = "str") =>
        /\ routed.raised = ""
        /\ routed.agents # <<>>
        /\ MatchingRoutesOf(routed.content.value, routing_spine) = {}
                => routed.agents = <<"general-learning-agent">>

(***************************************************************************)
(* C16: whenever route returns for a text that some route matches, the     *)
(* list holds exactly the routes that match the detected content type or   *)
(* capability, ordered by descending score (priority x success_rate,       *)
(* doubled when both match), routes of equal score in registration order.  *)
(***************************************************************************)
C16_RouteRanksMatchingRoutes ==
    [][ (routed' # routed /\ routed'.raised = "")
        => \/ RankedMatchesOf(routed'.agents, routed'.content.value, routing_spine)
           \/ MatchingRoutesOf(routed'.content.value, routing_spine) = {}
      ]_vars

\* a route call after score updates: a route that matches both the type and
\* the capability is ranked above a route of higher priority x success_rate that
\* matches only one of them, and two routes of equal score follow each other
C16_Witness ==
    /\ routed.called
    /\ routed.raised = ""
    /\ rate_updates > 0
    /\ \E i \in 1..Len(routing_spine) : routing_spine[i].success_rate # RateOne
    /\ routed.content = Str("refactor utils.py")
    /\ RankedMatchesOf(routed.agents, routed.content.value, routing_spine)
    /\ routed.agents[1] = "claude-code"
    /\ Len(routed.agents) = 4

CodebaseScenarioText == "Analyze the codebase for duplicates and dead code"

QuizScenarioText ==
    "Create a quiz about photosynthesis for 6th grade with 10 questions"

\* decompose has returned the plan of the task text
Decomposed == pattern # ""

\* create_execution_plan has returned the waves of that plan
Planned == Decomposed /\ wave_num >= 1

\* the number of subtasks of each wave of the plan
WaveSizes == [i \in 1..Len(execution_waves) |-> Len(execution_waves[i])]

\* some test of the chain of _identify_pattern holds of the lower-cased text
AnyPredicateMatches(task_lower) ==
    \/ IsDuplicateDetection(task_lower)
    \/ IsDeadCodeAnalysis(task_lower)
    \/ IsCodeOrganization(task_lower)
    \/ IsQuizGeneration(task_lower)
    \/ IsLearningMaterials(task_lower)
    \/ IsCodebaseAnalysis(task_lower)
    \/ IsProjectStatus(task_lower)
    \/ IsCodeCleanup(task_lower)
    \/ IsRefactoring(task_lower)
    \/ IsQualityAssessment(task_lower)
    \/ IsContentExtraction(task_lower)
    \/ IsDocumentation(task_lower)
    \/ IsContentResearch(task_lower)
    \/ IsGeneralFind(task_lower)

\* for each task text of the model, whether some test of the chain holds of it
RecognisedTexts == {text \in TaskTexts : AnyPredicateMatches(Lower(text))}

(***************************************************************************)
(* C18: the task text "Analyze the codebase for duplicates and dead code"  *)
(* is classified as codebase analysis; its plan has four subtasks, three   *)
(* without dependencies and a fourth depending on all three, and the       *)
(* execution plan has exactly two waves, of three subtasks and of one.     *)
(***************************************************************************)
C18_CodebaseScenarioTwoWaves ==
    (Decomposed /\ original_request = CodebaseScenarioText) =>
        /\ pattern = "analyze_codebase"
        /\ Len(subtasks) = 4
        /\ \A i \in 1..3 : subtasks[i].depends_on = {}
        /\ subtasks[4].depends_on = {subtasks[i].task_id : i \in 1..3}
        /\ Planned => WaveSizes = <<3, 1>>

\* what the code does with that text: "duplicates" is in it, the first test of
\* the chain holds, and the plan is the single duplicate-detector subtask
C18_CodebaseScenarioIsDuplicateDetection ==
    (Decomposed /\ original_request = CodebaseScenarioText) =>
        /\ pattern = "find_duplicates"
        /\ Len(subtasks) = 1
        /\ subtasks[1].ion_name = "duplicate-detector"
        /\ Planned => WaveSizes = <<1>>

\* a text the chain does classify as codebase analysis gets the four subtasks
\* and the two waves
C18_CodebaseAnalysisTwoWaves ==
    (Decomposed /\ pattern = "analyze_codebase") =>
        /\ Len(subtasks) = 4
        /\ \A i \in 1..3 : subtasks[i].depends_on = {}
        /\ subtasks[4].depends_on = {subtasks[i].task_id : i \in 1..3}
        /\ Planned => WaveSizes = <<3, 1>>

(***************************************************************************)
(* C19: the task text "Create a quiz about photosynthesis for 6th grade    *)
(* with 10 questions" is classified as quiz generation; its plan is        *)
(* exactly one subtask without dependencies, and the execution plan has    *)
(* exactly one wave.                                                       *)
(***************************************************************************)
C19_QuizScenarioOneWave ==
    (Decomposed /\ original_request = QuizScenarioText) =>
        /\ pattern = "generate_quiz"
        /\ Len(subtasks) = 1
        /\ subtasks[1].depends_on = {}
        /\ Planned => /\ Len(execution_waves) = 1
                      /\ execution_waves[1] = subtasks

\* the quiz text was decomposed and planned: one quiz-generator subtask in
\* one wave
C19_Witness ==
    /\ Planned
    /\ original_request = QuizScenarioText
    /\ pattern = "generate_quiz"
    /\ Len(subtasks) = 1
    /\ subtasks[1].ion_name = "quiz-generator"
    /\ WaveSizes = <<1>>

(***************************************************************************)
(* C20: _identify_pattern returns a pattern for every task text, and it    *)
(* returns CUSTOM exactly when none of the tests of its chain holds of     *)
(* the text.                                                               *)
(***************************************************************************)
C20_CustomExactlyWhenNothingMatches ==
    Decomposed =>
        /\ pattern \in TaskPatterns
        /\ pattern = "custom" <=> original_request \notin RecognisedTexts

\* a text none of the tests recognises was classified CUSTOM, and its plan is
\* the single general subtask
C20_Witness ==
    /\ Decomposed
    /\ original_request = "Hello there"
    /\ original_request \notin RecognisedTexts
    /\ pattern = "custom"
    /\ subtasks[1].ion_name = "general"

\* a text only the last test, the general "find", recognises was classified as
\* content research
C20_WitnessGeneralFind ==
    /\ Decomposed
    /\ original_request = "find my keys"
    /\ original_request \in RecognisedTexts
    /\ pattern = "research_topic"

(***************************************************************************)
(* C21: classification is first-match-wins over the fixed order of the     *)
(* tests: a text the duplicate-detection test holds of is classified       *)
(* DUPLICATE_DETECTION whatever later tests hold of it too, and a text is  *)
(* classified CONTENT_RESEARCH through the general "find" test only when   *)
(* none of the tests before it holds.                                      *)
(***************************************************************************)
\* some test before the general "find" holds of the lower-cased text
EarlierPredicateMatches(task_lower) ==
    \/ IsDuplicateDetection(task_lower)
    \/ IsDeadCodeAnalysis(task_lower)
    \/ IsCodeOrganization(task_lower)
    \/ IsQuizGeneration(task_lower)
    \/ IsLearningMaterials(task_lower)
    \/ IsCodebaseAnalysis(task_lower)
    \/ IsProjectStatus(task_lower)
    \/ IsCodeCleanup(task_lower)
    \/ IsRefactoring(task_lower)
    \/ IsQualityAssessment(task_lower)
    \/ IsContentExtraction(task_lower)
    \/ IsDocumentation(task_lower)
    \/ IsContentResearch(task_lower)

\* the task texts of the model the duplicate-detection test holds of
DuplicateTexts == {text \in TaskTexts : IsDuplicateDetection(Lower(text))}

\* the task texts of the model the general "find" test holds of
FindTexts == {text \in TaskTexts : IsGeneralFind(Lower(text))}

\* the task texts of the model some test before the general "find" holds of
EarlierTexts == {text \in TaskTexts : EarlierPredicateMatches(Lower(text))}

\* the task texts of the model a test after the duplicate-detection test holds of
LaterThanDuplicateTexts ==
    {text \in TaskTexts :
        \/ IsDeadCodeAnalysis(Lower(text))
        \/ IsCodebaseAnalysis(Lower(text))
        \/ IsGeneralFind(Lower(text))}

C21_FirstMatchWins ==
    Decomposed =>
        /\ original_request \in DuplicateTexts => pattern = "find_duplicates"
        /\ (original_request \in FindTexts /\ original_request \in EarlierTexts
                /\ original_request \notin
                      {text \in TaskTexts : IsContentResearch(Lower(text))})
              => pattern # "research_topic"
        /\ (original_request \in FindTexts /\ original_request \notin EarlierTexts)
              => pattern = "research_topic"

\* a text the duplicate-detection test and later tests (dead code, codebase
\* analysis) hold of was classified DUPLICATE_DETECTION
C21_Witness ==
    /\ Decomposed
    /\ original_request = CodebaseScenarioText
    /\ original_request \in DuplicateTexts
    /\ original_request \in LaterThanDuplicateTexts
    /\ pattern = "find_duplicates"

\* a text holding "find" that an earlier test also holds of was classified by
\* the earlier test
C21_WitnessFindShadowed ==
    /\ Decomposed
    /\ original_request = "Find duplicate code"
    /\ original_request \in FindTexts
    /\ original_request \in EarlierTexts
    /\ pattern = "find_duplicates"

(***************************************************************************)
(* The synthesizer on its own: a pattern and a list of outputs are chosen, *)
(* synthesize is called on them up to twice, and time passes.              *)
(***************************************************************************)
InitSynthesizer ==
    /\ pc = "start"
    /\ subtasks = <<>>
    /\ ExecuteNotStarted
    /\ FeedbackEmpty
    /\ DecomposerNotCalled
    /\ task_queue = TaskQueue(DefaultMaxConcurrent)
    /\ callers = [c \in Callers |-> IdleCaller]
    /\ SpineConstructed
    /\ clock = 0
    /\ \E task_pattern \in TaskPatterns : \E ion_outputs \in OutputLists :
            synthesizer = SynthesizerCalls(task_pattern, ion_outputs, <<>>)

\* report = synthesizer.synthesize(task_pattern, ion_outputs)
Synthesize ==
    /\ Len(synthesizer.reports) < 2
    /\ synthesizer' =
            [synthesizer EXCEPT
                !.reports = Append(@, synthesize_fn(synthesizer.task_pattern,
                                                    synthesizer.ion_outputs, clock))]
    /\ UNCHANGED <<coordinatorVars, orchestratorVars, decomposerVars, clock>>

\* time passes
Tick ==
    /\ clock < MaxClock
    /\ clock' = clock + 1
    /\ UNCHANGED <<coordinatorVars, orchestratorVars, decomposerVars, synthesizer>>

NextSynthesizer == Synthesize \/ Tick

SpecSynthesizer == InitSynthesizer /\ [][NextSynthesizer]_vars

(***************************************************************************)
(* Vocabulary of the properties of the synthesizer.                        *)
(***************************************************************************)
\* the reports the synthesize calls made so far returned
ReturnedReports ==
    {synthesizer.reports[i].value :
        i \in {j \in 1..Len(synthesizer.reports) : synthesizer.reports[j].raised = ""}}

\* every high section precedes every medium one, which precedes every low one
OrderedByPriority(sections) ==
    \A i, j \in 1..Len(sections) :
        i < j => priority_order(sections[i]) <= priority_order(sections[j])

\* the report without its two clock readings
WithoutClock(r) ==
    [title |-> r.title, summary |-> r.summary, sections |-> r.sections,
     raw_outputs |-> r.raw_outputs, recommendations |-> r.recommendations,
     total_ions |-> r.metadata.total_ions,
     successful_ions |-> r.metadata.successful_ions,
     failed_ions |-> r.metadata.failed_ions, ions_used |-> r.metadata.ions_used]

\* the patterns whose fusion function is _synthesize_codebase_analysis
CodebasePatterns ==
    {"analyze_codebase", "find_duplicates", "find_dead_code", "organize_code"}

\* the patterns without a fusion function of their own
UnknownPatterns == TaskPatterns \ Synthesizers

(***************************************************************************)
(* C22: for every fusion function and for the generic fallback, the        *)
(* sections of the report synthesize returns are ordered by priority:      *)
(* every high section before every medium one, every medium one before     *)
(* every low one.                                                          *)
(***************************************************************************)
C22_SectionsOrderedByPriority ==
    \A r \in ReturnedReports : OrderedByPriority(r.sections)

\* the two fusion functions that sort their sections return them ordered
C22_SortingFusionFunctionsOrdered ==
    synthesizer.task_pattern \in CodebasePatterns \cup {"code_cleanup"} =>
        \A r \in ReturnedReports : OrderedByPriority(r.sections)

(***************************************************************************)
(* C23: two synthesize calls with the same pattern and the same list of    *)
(* outputs return identical reports.                                       *)
(***************************************************************************)
C23_SynthesizeTwiceIdentical ==
    Len(synthesizer.reports) = 2 => synthesizer.reports[1] = synthesizer.reports[2]

\* the two reports are equal in everything but metadata.timestamp and
\* generated_at, the two readings of the clock
C23_IdenticalApartFromClock ==
    (Len(synthesizer.reports) = 2 /\ synthesizer.reports[1].raised = "") =>
        /\ synthesizer.reports[2].raised = ""
        /\ WithoutClock(synthesizer.reports[1].value)
              = WithoutClock(synthesizer.reports[2].value)

(***************************************************************************)
(* C24: synthesize returns a report and does not raise when the result     *)
(* payloads lack keys the fusion function reads; a successful              *)
(* duplicate-detector output with duplicates_found = 7 and no "groups" key *)
(* gives a summary that contains "7".                                      *)
(***************************************************************************)
\* the first duplicate-detector output is successful, reports 7 duplicates and
\* has no "groups" key
SevenDuplicatesNoGroups(outputs) ==
    /\ FoundSuccess(outputs, "duplicate-detector")
    /\ Get(ResultOf(outputs, "duplicate-detector"), "duplicates_found", 0) = 7
    /\ "groups" \notin DOMAIN ResultOf(outputs, "duplicate-detector")

C24_NoRaiseOnMissingKeys ==
    \A i \in 1..Len(synthesizer.reports) :
        /\ synthesizer.reports[i].raised = ""
        /\ (/\ synthesizer.task_pattern \in CodebasePatterns
            /\ SevenDuplicatesNoGroups(synthesizer.ion_outputs))
              => /\ Contains(synthesizer.reports[i].value.summary, "7")
                 /\ \E k \in 1..Len(synthesizer.reports[i].value.sections) :
                        /\ synthesizer.reports[i].value.sections[k].ion
                              = "duplicate-detector"
                        /\ Contains(synthesizer.reports[i].value.sections[k].content,
                                    "Total duplicates: 7")

\* the codebase analysis of the one duplicate-detector output with 7 duplicates
\* and no groups returned its report
C24_Witness ==
    /\ synthesizer.task_pattern = "analyze_codebase"
    /\ Len(synthesizer.ion_outputs) = 1
    /\ SevenDuplicatesNoGroups(synthesizer.ion_outputs)
    /\ Len(synthesizer.reports) >= 1
    /\ synthesizer.reports[1].raised = ""
    /\ synthesizer.reports[1].value.summary
          = "Codebase analysis complete. Found 7 issues: 7 duplicate code blocks."

(***************************************************************************)
(* C25: for a pattern without a fusion function of its own, the report's   *)
(* summary states the number of successful outputs out of the total, the   *)
(* report has exactly one section per output in the order of the outputs   *)
(* (failed ones included), and it carries a failure recommendation exactly *)
(* when at least one output failed.                                        *)
(***************************************************************************)
C25_GenericFallbackReport ==
    synthesizer.task_pattern \in UnknownPatterns =>
        \A i \in 1..Len(synthesizer.reports) :
            LET outputs    == synthesizer.ion_outputs
                successful == Cardinality({k \in 1..Len(outputs) : outputs[k].success})
                r          == synthesizer.reports[i].value
            IN  /\ synthesizer.reports[i].raised = ""
                /\ Contains(r.summary,
                            ToString(successful) \o "/" \o ToString(Len(outputs)))
                /\ Len(r.sections) = Len(outputs)
                /\ \A k \in 1..Len(outputs) :
                        /\ r.sections[k].ion = outputs[k].ion_name
                        /\ Contains(r.sections[k].content, outputs[k].description)
                /\ (\E k \in 1..Len(r.recommendations) :
                        Contains(r.recommendations[k], "failed"))
                      <=> (\E k \in 1..Len(outputs) : ~outputs[k].success)

\* the fallback was given a successful output followed by a failed one
C25_Witness ==
    /\ synthesizer.task_pattern = "custom"
    /\ Len(synthesizer.ion_outputs) = 2
    /\ synthesizer.ion_outputs[1].success
    /\ ~synthesizer.ion_outputs[2].success
    /\ Len(synthesizer.reports) >= 1
    /\ synthesizer.reports[1].raised = ""
    /\ synthesizer.reports[1].value.summary
          = "Completed 1/2 Ion executions successfully."
    /\ Len(synthesizer.reports[1].value.sections) = 2
    /\ synthesizer.reports[1].value.recommendations
          = <<"HIGH: 1 Ion(s) failed - review errors">>

(***************************************************************************)
(* One TaskDecomposer called several times: each decompose call numbers    *)
(* its subtasks from the task_counter the previous call left.              *)
(***************************************************************************)
MaxPlans == 2

InitDecomposer ==
    /\ pc = "start"
    /\ subtasks = <<>>
    /\ ExecuteNotStarted
    /\ SynthesizerNotCalled
    /\ FeedbackEmpty
    /\ DecomposerNotCalled
    /\ task_queue = TaskQueue(DefaultMaxConcurrent)
    /\ callers = [c \in Callers |-> IdleCaller]
    /\ SpineConstructed

\* task_plan = decomposer.decompose(task)
DecomposeTask ==
    /\ Len(task_plans) < MaxPlans
    /\ \E text \in TaskTexts :
        LET p    == _identify_pattern(text)
            plan == decompose(p, task_counter)
        IN  /\ task_counter' = task_counter + Len(plan)
            /\ parallel_groups' = TaskPlan(text, p, plan).parallel_groups
            /\ task_plans' = Append(task_plans, TaskPlan(text, p, plan))
    /\ UNCHANGED <<pc, original_request, pattern, subtasks, execution_waves, wave_num,
                   all_outputs, previous_wave_results, metrics, co, invocations,
                   exc, report, trace, execution_trace,
                   entries, feedback_file, rate_updates,
                   orchestratorVars, synthesizerVars>>

NextDecomposer == DecomposeTask

SpecDecomposer == InitDecomposer /\ [][NextDecomposer]_vars

\* the subtasks of all the plans returned so far, as <<plan, position>>
PlannedSubtasks ==
    UNION {{<<i, k>> : k \in 1..Len(task_plans[i].subtasks)} :
                i \in 1..Len(task_plans)}

(***************************************************************************)
(* C27: over every sequence of decompose calls on one TaskDecomposer, the  *)
(* task ids of all the subtasks generated are pairwise distinct, within a  *)
(* plan and from one plan to another, and every id in the depends_on of a  *)
(* subtask is the task id of another subtask of the same plan.             *)
(***************************************************************************)
C27_TaskIdsDistinctDependenciesInPlan ==
    /\ \A a \in PlannedSubtasks : \A b \in PlannedSubtasks :
            a # b => task_plans[a[1]].subtasks[a[2]].task_id
                        # task_plans[b[1]].subtasks[b[2]].task_id
    /\ \A a \in PlannedSubtasks :
            \A dep \in task_plans[a[1]].subtasks[a[2]].depends_on :
                \E k \in 1..Len(task_plans[a[1]].subtasks) :
                    /\ k # a[2]
                    /\ task_plans[a[1]].subtasks[k].task_id = dep

\* the same pattern was decomposed twice: the two plans use the same Ion
\* names, and the second has dependencies
C27_Witness ==
    /\ Len(task_plans) = 2
    /\ task_plans[1].pattern = "analyze_codebase"
    /\ task_plans[2].pattern = "analyze_codebase"
    /\ task_plans[2].subtasks[4].depends_on # {}
    /\ task_plans[1].subtasks[1].ion_name = task_plans[2].subtasks[1].ion_name

(***************************************************************************)
(* The plans of the decomposer under execute.                              *)
(***************************************************************************)
\* _execute_wave has created the coroutine of the subtask: the subtask is
\* invoked, or about to be
Invoked(s) == co[s.task_id].state # "idle"

\* the coroutine of the subtask with this task id is over: it returned its
\* output, or the timeout of its wave cancelled it
InvocationFinished(task_id) ==
    /\ task_id \in DOMAIN co
    /\ co[task_id].state \in {"returned", "cancelled"}

(***************************************************************************)
(* C28: for the plan the decomposer builds for each recognized pattern,    *)
(* whenever execute has invoked a subtask, every id in its depends_on is   *)
(* a subtask of the plan placed in an earlier wave whose own invocation is *)
(* over (it returned, or the timeout of its wave cancelled it).            *)
(***************************************************************************)
C28_DependenciesFinishBeforeDependents ==
    \A s \in Range(subtasks) :
        Invoked(s) =>
            \A dep \in s.depends_on :
                /\ \E d \in Range(subtasks) : d.task_id = dep
                /\ \A ws \in WavesHolding(s.task_id) :
                        \E wd \in WavesHolding(dep) : wd < ws
                /\ InvocationFinished(dep)

\* the subtask that depends on three others is being invoked in wave 2, after
\* the three returned successful outputs in wave 1
C28_Witness ==
    /\ pc = "await"
    /\ wave_num = 2
    /\ \E s \in Range(CurrentWave) :
            /\ co[s.task_id].state = "invoking"
            /\ Cardinality(s.depends_on) = 3
            /\ \A dep \in s.depends_on :
                    /\ co[dep].state = "returned"
                    /\ co[dep].output.success

\* every subtask of the wave has completed: its coroutine returned an output
AllCompleted(wave) ==
    \A t \in Range(wave) : co[t.task_id].state = "returned"

\* this step is the elapsing of the budget of the wave being awaited: every
\* subtask of the wave gets the timeout output
BudgetElapses ==
    /\ Len(all_outputs') = Len(all_outputs) + Len(CurrentWave)
    /\ \A i \in (Len(all_outputs) + 1)..Len(all_outputs') :
            all_outputs'[i].error = "Execution timeout"

\* this step is the end of the coroutine of a subtask: it returned the output
\* of a success, of a reported failure or of an exception
SubtaskEnds(t) ==
    /\ co[t].state \in {"created", "invoking"}
    /\ co'[t].state = "returned"

(***************************************************************************)
(* C29: the wave being awaited ends only in a step taken when all of its   *)
(* subtasks have completed, or in the step of its budget elapsing.  The    *)
(* step in which one subtask ends (success, reported failure, exception)   *)
(* leaves the wave awaited and every other coroutine as it was, and a      *)
(* coroutine is cancelled only by the budget elapsing.                     *)
(***************************************************************************)
C29_WaveJoinsAllOrTimesOut ==
    [][ /\ (pc = "await" /\ pc' # "await") =>
                AllCompleted(CurrentWave) \/ BudgetElapses
        /\ \A t \in DOMAIN co \cap DOMAIN co' :
                /\ SubtaskEnds(t) =>
                        /\ pc' = "await"
                        /\ wave_num' = wave_num
                        /\ \A u \in DOMAIN co \ {t} : co'[u] = co[u]
                /\ (co[t].state # "cancelled" /\ co'[t].state = "cancelled") =>
                        BudgetElapses
      ]_vars

\* one subtask of the wave ended with an exception, another with a reported
\* failure, and a third is still being invoked in the wave still awaited
C29_Witness ==
    /\ pc = "await"
    /\ \E s \in Range(CurrentWave) :
            co[s.task_id].state = "returned" /\ co[s.task_id].e # ""
    /\ \E s \in Range(CurrentWave) :
            /\ co[s.task_id].state = "returned"
            /\ co[s.task_id].e = ""
            /\ ~co[s.task_id].output.success
    /\ \E s \in Range(CurrentWave) : co[s.task_id].state = "invoking"

(***************************************************************************)
(* The two partitions of a list of subtasks.                               *)
(***************************************************************************)
\* the task ids of each wave of create_execution_plan
WaveIds == [w \in 1..Len(execution_waves) |->
                {execution_waves[w][k].task_id : k \in 1..Len(execution_waves[w])}]

\* both partitions of the list of subtasks have been computed
BothPartitionsComputed == pc = "groups_output"

(***************************************************************************)
(* C30: for every list of subtasks, the waves of create_execution_plan and *)
(* the parallel_groups of _calculate_parallel_groups are the same          *)
(* partition: as many groups as waves, and the k-th group holds the task   *)
(* ids of the k-th wave.  Stated for the lists both functions are written  *)
(* for: no cycle, and every dependency the task id of a subtask of the     *)
(* list.                                                                   *)
(***************************************************************************)
C30_WavesEqualParallelGroups ==
    (BothPartitionsComputed /\ Acyclic /\ DependenciesClosed)
        => WaveIds = parallel_groups

\* the two partitions agree on those lists when every Ion name is spelled
\* like its task id, so that the Ion names create_execution_plan collects
\* in completed are the ids depends_on holds
C30_EqualWhenIonNamesAreTaskIds ==
    ( /\ BothPartitionsComputed
      /\ Acyclic
      /\ DependenciesClosed
      /\ \A i \in 1..Len(subtasks) : subtasks[i].ion_name = subtasks[i].task_id )
        => WaveIds = parallel_groups

\* and they agree on every plan the decomposer builds, none of which has a
\* dependency on a dependent subtask
C30_EqualOnDecomposerPlans ==
    Planned => WaveIds = parallel_groups

(***************************************************************************)
(* The Feedback Store and its durable log.                                 *)
(***************************************************************************)
\* this step is a FeedbackLoop.record call: the append is its first effect
RecordCalled == entries' # entries

\* the coroutine of a subtask went through the record call and on to
\* "return IonOutput(...)" without an exception
RecorderReturnedNormally ==
    \E t \in DOMAIN co \cap DOMAIN co' :
        /\ co[t].state = "invoking"
        /\ co'[t].state = "returned"
        /\ co'[t].e = ""
        /\ entries'[Len(entries')].agents_used = <<co'[t].output.ion_name>>

(***************************************************************************)
(* C26: the Feedback Store is append-only.  No step modifies, reorders or  *)
(* removes an entry the store holds; every record call puts exactly one   *)
(* entry at the end of entries; and the call raises nothing, whether the   *)
(* write of the entry's line to the durable log succeeded (the log gains   *)
(* that line) or failed (the log is as it was).                            *)
(***************************************************************************)
C26_FeedbackStoreAppendOnly ==
    [][ /\ Len(entries') \in {Len(entries), Len(entries) + 1}
        /\ \A i \in 1..Len(entries) : entries'[i] = entries[i]
        /\ RecordCalled =>
                /\ RecorderReturnedNormally \/ \E r \in Reporters : TaskReports(r)
                /\ exc' = exc
                /\ feedback_file' \in
                        {feedback_file,
                         Append(feedback_file, entries'[Len(entries')])}
        /\ ~RecordCalled => feedback_file' = feedback_file
      ]_vars

\* two record calls were made, the write of the first entry failed and the
\* write of the second succeeded: both entries are in the store, in order
C26_Witness ==
    /\ Len(entries) = 2
    /\ feedback_file = <<entries[2]>>
    /\ entries[1] # entries[2]
    /\ \A k \in 1..2 : \E t \in DOMAIN co :
            /\ co[t].state = "returned"
            /\ co[t].e = ""
            /\ entries[k].agents_used = <<co[t].output.ion_name>>

(***************************************************************************)
(* The counters of ExecutionMetrics.                                       *)
(***************************************************************************)
\* the wave loop of execute is over: the next statement is the synthesize call,
\* or a later one
ReachedSynthesis == Planned /\ wave_num > Len(execution_waves)

(***************************************************************************)
(* C31: once execute has run all its waves and reaches synthesis, the      *)
(* metrics count every subtask of the plan once: successful_subtasks plus  *)
(* failed_subtasks is total_subtasks, whatever successes, reported         *)
(* failures, exceptions and wave timeouts there were.                      *)
(***************************************************************************)
C31_MetricsAccountForEverySubtask ==
    ReachedSynthesis =>
        /\ metrics.total_subtasks = Len(subtasks)
        /\ metrics.successful_subtasks + metrics.failed_subtasks
                = metrics.total_subtasks

\* execute returned its report after a plan of two waves in which one wave
\* timed out with a subtask already returned, and the other wave held a success
C31_Witness ==
    /\ pc = "returned"
    /\ exc = ""
    /\ Len(execution_waves) = 2
    /\ metrics.successful_subtasks >= 1
    /\ metrics.failed_subtasks >= 2
    /\ \E s \in Range(subtasks) : co[s.task_id].state = "cancelled"
    /\ \E s \in Range(subtasks) : \E u \in Range(subtasks) :
            /\ s # u
            /\ WavesHolding(s.task_id) = WavesHolding(u.task_id)
            /\ co[s.task_id].state = "cancelled"
            /\ co[u.task_id].state = "returned"

(***************************************************************************)
(* Where the tasks of the TaskQueue are.                                   *)
(***************************************************************************)
\* the ids of the tasks in self.queue
QueuedIds == {task_queue.queue[i].id : i \in 1..Len(task_queue.queue)}

\* the ids of the tasks the TaskQueue holds, in any of its three collections
HeldIds ==
    QueuedIds \cup DOMAIN task_queue.active_tasks
              \cup DOMAIN task_queue.completed_tasks

\* this step is the body of an add_task call
TaskAdded(c) ==
    /\ callers[c].op = "add_task"
    /\ task_queue._lock = c
    /\ callers'[c].op = ""

(***************************************************************************)
(* C32: after any sequence of add_task, get_next_task, complete_task and   *)
(* fail_task, every task ever added is in exactly one of queue,            *)
(* active_tasks and completed_tasks.  None is in two of them or twice in   *)
(* the queue; an add_task call adds its task to the tasks held; and no     *)
(* step takes a task out of the three collections together.                *)
(***************************************************************************)
C32_EveryTaskInExactlyOnePlace ==
    /\ [](/\ Len(task_queue.queue) = Cardinality(QueuedIds)
          /\ QueuedIds \cap DOMAIN task_queue.active_tasks = {}
          /\ QueuedIds \cap DOMAIN task_queue.completed_tasks = {}
          /\ DOMAIN task_queue.active_tasks
                \cap DOMAIN task_queue.completed_tasks = {})
    /\ [][ /\ HeldIds \subseteq HeldIds'
           /\ \A c \in Callers :
                TaskAdded(c) => HeldIds' = HeldIds \cup {callers[c].task.id}
           /\ (\A c \in Callers : ~TaskAdded(c)) => HeldIds' = HeldIds
         ]_vars

\* of the two tasks added, one went through get_next_task and fail_task and is
\* in completed_tasks, the other was taken by get_next_task and is active
C32_Witness ==
    /\ Cardinality(DOMAIN task_queue.completed_tasks) = 1
    /\ Cardinality(DOMAIN task_queue.active_tasks) = 1
    /\ task_queue.queue = <<>>
    /\ \E id \in DOMAIN task_queue.completed_tasks :
            task_queue.completed_tasks[id].status = "failed"

(***************************************************************************)
(* The TaskQueue called by one coroutine, one method after the other; the  *)
(* lock makes every body run alone, so a call is one step.  The tasks are  *)
(* numbered in the order of their add_task calls (their ids are opaque     *)
(* uuid4 strings), and the caller keeps what its last call returned.       *)
(***************************************************************************)
MaxAdded == 3

SequentialCaller == "_process_queue"

\* the caller after a call: the method, its task-id argument (0 when it has
\* none), the value returned and the exception raised ("" when none)
AfterCall(op, argument, returned, raised) ==
    [op |-> "", task |-> NoTask, task_id |-> 0,
     last_call |-> op, argument |-> argument, returned |-> returned,
     raised |-> raised]

InitCalls ==
    /\ pc = "start"
    /\ subtasks = <<>>
    /\ ExecuteNotStarted
    /\ SynthesizerNotCalled
    /\ FeedbackEmpty
    /\ DecomposerNotCalled
    /\ SpineConstructed
    /\ \E max_concurrent \in 0..MaxConcurrent : task_queue = TaskQueue(max_concurrent)
    /\ callers = [c \in Callers |->
                    IF c = SequentialCaller THEN AfterCall("", 0, None, "")
                    ELSE IdleCaller]

\* task_id = await self.task_queue.add_task(task)
CallAddTask ==
    /\ Cardinality(HeldIds) < MaxAdded
    /\ \E priority \in TaskPriority :
        LET task == LearningTask(Cardinality(HeldIds) + 1, priority, "queued")
            body == add_task_body(task_queue, task)
        IN  /\ task_queue' = body.task_queue
            /\ callers' = [callers EXCEPT ![SequentialCaller] =
                                AfterCall("add_task", 0, body.returned, "")]
    /\ UNCHANGED <<coordinatorVars, synthesizerVars, decomposerVars, spineVars>>

\* task = await self.task_queue.get_next_task()
CallGetNextTask ==
    /\ LET body == get_next_task_body(task_queue)
       IN  /\ task_queue' = body.task_queue
           /\ callers' = [callers EXCEPT ![SequentialCaller] =
                                AfterCall("get_next_task", 0, body.returned, "")]
    /\ UNCHANGED <<coordinatorVars, synthesizerVars, decomposerVars, spineVars>>

\* await self.task_queue.complete_task(task_id, results), or
\* await self.task_queue.fail_task(task_id, error), with any task id
CallFinishTask ==
    /\ \E task_id \in 1..MaxAdded :
       \E call \in {<<"complete_task", "completed">>, <<"fail_task", "failed">>} :
        LET body == finish_task_body(task_queue, task_id, call[2])
        IN  /\ task_queue' = body.task_queue
            /\ callers' = [callers EXCEPT ![SequentialCaller] =
                                AfterCall(call[1], task_id, None, body.raised)]
    /\ UNCHANGED <<coordinatorVars, synthesizerVars, decomposerVars, spineVars>>

NextCalls == CallAddTask \/ CallGetNextTask \/ CallFinishTask

SpecCalls == InitCalls /\ [][NextCalls]_vars

\* the call the sequential caller has just made
LastCall == callers[SequentialCaller]

\* active_tasks holds fewer tasks than max_concurrent
BelowCeiling ==
    Cardinality(DOMAIN task_queue.active_tasks) < task_queue.max_concurrent

\* this step is a get_next_task call
GetNextTaskCalled == callers'[SequentialCaller].last_call = "get_next_task"

\* this step is a complete_task or fail_task call
FinishTaskCalled ==
    callers'[SequentialCaller].last_call \in {"complete_task", "fail_task"}

(***************************************************************************)
(* C33: called below the concurrency ceiling, get_next_task returns None   *)
(* when the queue is empty, and otherwise returns a task of the queue that *)
(* no queued task exceeds in priority value and that was added before      *)
(* every other queued task of the same priority.                           *)
(***************************************************************************)
C33_NextTaskIsHighestPriorityEarliest ==
    [][ (GetNextTaskCalled /\ BelowCeiling) =>
            LET returned == callers'[SequentialCaller].returned
            IN  IF task_queue.queue = <<>>
                THEN returned = None
                ELSE /\ returned \in Range(task_queue.queue)
                     /\ \A t \in Range(task_queue.queue) :
                            \/ t.priority < returned.priority
                            \/ /\ t.priority = returned.priority
                               /\ t.id >= returned.id
      ]_vars

\* get_next_task returned the second task added while the queue holds the
\* first, of lower priority, and the third, of the same priority
C33_Witness ==
    /\ LastCall.last_call = "get_next_task"
    /\ LastCall.returned # None
    /\ LastCall.returned.id = 2
    /\ Len(task_queue.queue) = 2
    /\ task_queue.queue[1].id = 3
    /\ task_queue.queue[1].priority = LastCall.returned.priority
    /\ task_queue.queue[2].id = 1
    /\ task_queue.queue[2].priority < LastCall.returned.priority

\* and it returned None from an empty queue below the ceiling
C33_WitnessEmptyQueue ==
    /\ LastCall.last_call = "get_next_task"
    /\ LastCall.returned = None
    /\ task_queue.queue = <<>>
    /\ BelowCeiling

(***************************************************************************)
(* C34: complete_task and fail_task called with a task id that is not in   *)
(* active_tasks raise nothing and leave queue, active_tasks and            *)
(* completed_tasks as they were.                                           *)
(***************************************************************************)
C34_FinishUnknownTaskChangesNothing ==
    [][ ( /\ FinishTaskCalled
          /\ callers'[SequentialCaller].argument
                \notin DOMAIN task_queue.active_tasks ) =>
            /\ callers'[SequentialCaller].raised = ""
            /\ task_queue'.queue = task_queue.queue
            /\ task_queue'.active_tasks = task_queue.active_tasks
            /\ task_queue'.completed_tasks = task_queue.completed_tasks
      ]_vars

\* fail_task was called with the id of a task that is still queued while
\* another task is active: it raised nothing, and the task is queued still
C34_Witness ==
    /\ LastCall.last_call = "fail_task"
    /\ LastCall.raised = ""
    /\ LastCall.argument \in QueuedIds
    /\ LastCall.argument \notin DOMAIN task_queue.completed_tasks
    /\ task_queue.active_tasks # <<>>

\* complete_task was called with an id no task carries
C34_WitnessNoSuchTask ==
    /\ LastCall.last_call = "complete_task"
    /\ LastCall.raised = ""
    /\ LastCall.argument \notin HeldIds

(***************************************************************************)
(* The processing loop: submit_task adds tasks, _process_queue takes the   *)
(* next task and starts a process_task coroutine for it, and process_task  *)
(* takes the task through its phases.  A task is the same object in the    *)
(* collection of the TaskQueue that holds it and in process_task, so the   *)
(* status process_task assigns is the status of the task held.  The tasks  *)
(* are numbered in the order of their add_task calls, and callers maps     *)
(* each number to the process_task coroutine of that task.                 *)
(***************************************************************************)
ProcessedIds == 1..MaxSubmitted

\* pc: "" (not started), "start", "analyzing", "routing", "executing"
\* (suspended in execute_with_agents), "except", "done"
ProcessTask(pc_, content_type, assigned_agents) ==
    [pc |-> pc_, content_type |-> content_type, assigned_agents |-> assigned_agents]

\* faulty variant: the exception leaves process_task without reaching fail_task
UncaughtPosition(pc_) == "done"

\* "try: ... except Exception as e:": where an exception raised at this
\* position of the try block takes process_task
ExceptPosition(pc_) == "except"

\* faulty variant: the statuses of the first two phases exchanged
PhaseStatusExchanged(phase) ==
    CASE phase = "analyzing" -> "routing"
      [] phase = "routing"   -> "analyzing"
      [] phase = "executing" -> "executing"

\* "task.status = TaskStatus.ANALYZING", "... ROUTING", "... EXECUTING": the
\* value of the status each phase assigns
PhaseStatus(phase) ==
    CASE phase = "analyzing" -> "analyzing"
      [] phase = "routing"   -> "routing"
      [] phase = "executing" -> "executing"

\* task.status = status, for the task taken from the queue
SetStatus(tq, id, status) == [tq EXCEPT !.active_tasks[id].status = status]

InitProcess ==
    /\ pc = "start"
    /\ subtasks = <<>>
    /\ ExecuteNotStarted
    /\ SynthesizerNotCalled
    /\ FeedbackEmpty
    /\ DecomposerNotCalled
    /\ SpineConstructed
    /\ \E max_concurrent \in 0..MaxConcurrent : task_queue = TaskQueue(max_concurrent)
    /\ callers = [id \in ProcessedIds |-> ProcessTask("", "", <<>>)]

\* submit_task: a new LearningTask with status QUEUED, and add_task
SubmitTask ==
    /\ Cardinality(HeldIds) < MaxSubmitted
    /\ \E priority \in TaskPriority :
            task_queue' = add_task_body(task_queue,
                              LearningTask(Cardinality(HeldIds) + 1, priority,
                                           "queued")).task_queue
    /\ UNCHANGED <<coordinatorVars, synthesizerVars, decomposerVars, spineVars, callers>>

\* one round of _process_queue that gets a task:
\* "asyncio.create_task(self.process_task(task))"
TakeTask ==
    /\ get_next_task_body(task_queue).returned # None
    /\ task_queue' = get_next_task_body(task_queue).task_queue
    /\ callers' = [callers EXCEPT ![get_next_task_body(task_queue).returned.id] =
                        ProcessTask("start", "", <<>>)]
    /\ UNCHANGED <<coordinatorVars, synthesizerVars, decomposerVars, spineVars>>

\* PHASE 1: "task.status = TaskStatus.ANALYZING"
Analyze(id) ==
    /\ callers[id].pc = "start"
    /\ task_queue' = SetStatus(task_queue, id, PhaseStatus("analyzing"))
    /\ callers' = [callers EXCEPT ![id].pc = "analyzing"]
    /\ UNCHANGED <<coordinatorVars, synthesizerVars, decomposerVars, spineVars>>

\* PHASE 2: "task.status = TaskStatus.ROUTING", detect_content_type and route
RouteTask(id) ==
    /\ callers[id].pc = "analyzing"
    /\ task_queue' = SetStatus(task_queue, id, PhaseStatus("routing"))
    /\ \E text \in TaskDescriptions :
            callers' = [callers EXCEPT ![id] =
                ProcessTask("routing", detect_content_type(text),
                            TopFive(route(Str(text), routing_spine).agents))]
    /\ UNCHANGED <<coordinatorVars, synthesizerVars, decomposerVars, spineVars>>

\* PHASE 3: "task.status = TaskStatus.EXECUTING", up to
\* "results = await self.execute_with_agents(task)"
Execute(id) ==
    /\ callers[id].pc = "routing"
    /\ task_queue' = SetStatus(task_queue, id, PhaseStatus("executing"))
    /\ callers' = [callers EXCEPT ![id].pc = "executing"]
    /\ UNCHANGED <<coordinatorVars, synthesizerVars, decomposerVars, spineVars>>

\* a statement of the try block raises: analyze, route or execute_with_agents
RaiseInProcessTask(id) ==
    /\ callers[id].pc \in {"analyzing", "routing", "executing"}
    /\ callers' = [callers EXCEPT ![id].pc = ExceptPosition(callers[id].pc)]
    /\ UNCHANGED <<coordinatorVars, synthesizerVars, decomposerVars, spineVars, task_queue>>

\* PHASE 4: complete_task, feedback_loop.record(success=True) and the score
\* update of every assigned agent
CompleteProcessTask(id) ==
    /\ callers[id].pc = "executing"
    /\ task_queue' = finish_task_body(task_queue, id, "completed").task_queue
    /\ \E write_error \in WriteErrors \cup {""} :
        LET recorded == record_and_write(entries, feedback_file,
                            TaskFeedbackEntry(id, callers[id].content_type,
                                              callers[id].assigned_agents, TRUE),
                            write_error)
        IN  /\ entries' = recorded.entries
            /\ feedback_file' = recorded.feedback_file
    /\ routing_spine' = UpdateAll(routing_spine, callers[id].assigned_agents, TRUE)
    /\ rate_updates' = rate_updates + Len(callers[id].assigned_agents)
    /\ callers' = [callers EXCEPT ![id].pc = "done"]
    /\ UNCHANGED <<executeVars, synthesizerVars, decomposerVars, routed, reporters>>

\* "except Exception as e": fail_task, feedback_loop.record(success=False) and
\* the score update of every assigned agent
FailProcessTask(id) ==
    /\ callers[id].pc = "except"
    /\ task_queue' = finish_task_body(task_queue, id, "failed").task_queue
    /\ \E write_error \in WriteErrors \cup {""} :
        LET recorded == record_and_write(entries, feedback_file,
                            TaskFeedbackEntry(id, "unknown",
                                              callers[id].assigned_agents, FALSE),
                            write_error)
        IN  /\ entries' = recorded.entries
            /\ feedback_file' = recorded.feedback_file
    /\ routing_spine' = UpdateAll(routing_spine, callers[id].assigned_agents, FALSE)
    /\ rate_updates' = rate_updates + Len(callers[id].assigned_agents)
    /\ callers' = [callers EXCEPT ![id].pc = "done"]
    /\ UNCHANGED <<executeVars, synthesizerVars, decomposerVars, routed, reporters>>

\* the steps of the process_task coroutine of one task
ProcessTaskStep(id) ==
    \/ Analyze(id)
    \/ RaiseInProcessTask(id)
    \/ RouteTask(id)
    \/ Execute(id)
    \/ CompleteProcessTask(id)
    \/ FailProcessTask(id)

NextProcess ==
    \/ SubmitTask
    \/ TakeTask
    \/ \E id \in ProcessedIds : ProcessTaskStep(id)

SpecProcess == InitProcess /\ [][NextProcess]_vars

\* the event loop runs every coroutine that is ready, and execute_with_agents
\* ends: a process_task coroutine that can take a step takes one
SpecProcessFair ==
    SpecProcess /\ \A id \in ProcessedIds : WF_vars(ProcessTaskStep(id))

(***************************************************************************)
(* Vocabulary of the claims about the processing loop.                     *)
(***************************************************************************)
\* the task with this id, in whichever collection of tq holds it
HeldTask(tq, id) ==
    IF id \in DOMAIN tq.active_tasks THEN tq.active_tasks[id]
    ELSE IF id \in DOMAIN tq.completed_tasks THEN tq.completed_tasks[id]
    ELSE tq.queue[CHOOSE i \in 1..Len(tq.queue) : tq.queue[i].id = id]

IdsIn(tq) ==
    {tq.queue[i].id : i \in 1..Len(tq.queue)}
        \cup DOMAIN tq.active_tasks \cup DOMAIN tq.completed_tasks

\* the order of the statuses of TaskStatus the claim names
StatusRank(status) ==
    CASE status = "queued"    -> 1
      [] status = "analyzing" -> 2
      [] status = "routing"   -> 3
      [] status = "executing" -> 4
      [] status \in {"completed", "failed"} -> 5
      [] OTHER -> 0

TerminalStatuses == {"completed", "failed"}

Finished(id) ==
    /\ id \notin DOMAIN task_queue.active_tasks
    /\ id \in DOMAIN task_queue.completed_tasks
    /\ task_queue.completed_tasks[id].status \in TerminalStatuses

\* C35: every task the processing loop takes from the queue (it is then in
\* active_tasks) eventually is out of active_tasks and in completed_tasks
\* with status COMPLETED or FAILED, so the capacity it held is released.
C35_TakenTaskEventuallyFinishes ==
    \A id \in ProcessedIds :
        (id \in DOMAIN task_queue.active_tasks) ~> Finished(id)

\* a task failed by the except branch after it was taken and routed, with
\* its process_task coroutine at its end and no capacity held
C35_Witness ==
    \E id \in ProcessedIds :
        /\ callers[id].pc = "done"
        /\ Finished(id)
        /\ task_queue.completed_tasks[id].status = "failed"
        /\ callers[id].assigned_agents # <<>>
        /\ DOMAIN task_queue.active_tasks = {}

\* C36: the status of a task only moves forward through QUEUED, ANALYZING,
\* ROUTING, EXECUTING and then COMPLETED or FAILED: no step takes it to an
\* earlier status, and no step changes a status of COMPLETED or FAILED.
C36_StatusOnlyMovesForward ==
    [][\A id \in IdsIn(task_queue) :
          /\ id \in IdsIn(task_queue')
          /\ StatusRank(HeldTask(task_queue', id).status)
                 >= StatusRank(HeldTask(task_queue, id).status)
          /\ StatusRank(HeldTask(task_queue, id).status) > 0
          /\ HeldTask(task_queue, id).status \in TerminalStatuses
                 => HeldTask(task_queue', id).status
                        = HeldTask(task_queue, id).status]_vars

\* one task went through every phase to COMPLETED and another was FAILED
\* from a phase, while both process_task coroutines are at their end
C36_Witness ==
    \E id, other \in ProcessedIds :
        /\ callers[id].pc = "done"
        /\ callers[other].pc = "done"
        /\ id \in DOMAIN task_queue.completed_tasks
        /\ other \in DOMAIN task_queue.completed_tasks
        /\ task_queue.completed_tasks[id].status = "completed"
        /\ task_queue.completed_tasks[other].status = "failed"

(***************************************************************************)
(* The operations of RoutingSpine called one after another: register_route *)
(* with a new route, update_success_rate with any agent name and outcome,  *)
(* and route.                                                              *)
(***************************************************************************)
\* "self.routes.append(route)"
register_route(routes, new_route) == Append(routes, new_route)

\* routes a caller registers: one under a new name, one under a name that a
\* default route has already
NewRoutes ==
    {AgentRoute("quiz-master", {"question"}, {"generate"}, 7, RateOne),
     AgentRoute("omnisearch", {"document"}, {"search"}, 3, RateOne)}

\* the names update_success_rate is called with: the names of the routes,
\* and the name route returns when no route matches, which has no route
UpdatedNames ==
    {_register_default_routes[i].agent_name : i \in 1..Len(_register_default_routes)}
        \cup {r.agent_name : r \in NewRoutes} \cup {"general-learning-agent"}

InitRates ==
    /\ pc = "start"
    /\ subtasks = <<>>
    /\ ExecuteNotStarted
    /\ SynthesizerNotCalled
    /\ FeedbackEmpty
    /\ DecomposerNotCalled
    /\ SpineConstructed
    /\ task_queue = TaskQueue(DefaultMaxConcurrent)
    /\ callers = [c \in Callers |->
                    IF c = SequentialCaller THEN AfterCall("", <<>>, None, "")
                    ELSE IdleCaller]

\* routing_spine.register_route(route)
CallRegisterRoute ==
    /\ Len(routing_spine) < Len(_register_default_routes) + MaxRegistered
    /\ \E new_route \in NewRoutes :
        /\ routing_spine' = register_route(routing_spine, new_route)
        /\ callers' = [callers EXCEPT ![SequentialCaller] =
                            AfterCall("register_route", <<new_route.agent_name>>,
                                      None, "")]
    /\ UNCHANGED <<coordinatorVars, synthesizerVars, decomposerVars, task_queue, routed, reporters>>

\* routing_spine.update_success_rate(agent_name, success)
CallUpdateSuccessRate ==
    /\ rate_updates < MaxReports
    /\ \E agent_name \in UpdatedNames : \E success \in BOOLEAN :
        /\ routing_spine' = update_success_rate(routing_spine, agent_name, success)
        /\ callers' = [callers EXCEPT ![SequentialCaller] =
                            AfterCall("update_success_rate", <<agent_name, success>>,
                                      None, "")]
    /\ rate_updates' = rate_updates + 1
    /\ UNCHANGED <<executeVars, entries, feedback_file, synthesizerVars, decomposerVars, task_queue, routed, reporters>>

NextRates == CallRegisterRoute \/ CallUpdateSuccessRate \/ Route

SpecRates == InitRates /\ [][NextRates]_vars

\* this step is an update_success_rate call
UpdateSuccessRateCalled == rate_updates' = rate_updates + 1

\* the indices of the routes registered under this name
RoutesNamed(routes, agent_name) ==
    {i \in 1..Len(routes) : routes[i].agent_name = agent_name}

\* C37: update_success_rate(name, outcome) changes the success rate of the
\* route registered under that name (up after a success unless it is 1.0
\* already, down after a failure unless it is 0) and leaves every other
\* route's rate, priority and declared categories unchanged; for a name with
\* no registered route it changes nothing; and no operation removes a route:
\* every step keeps every route at its place with its name, priority,
\* content types and capabilities.
C37_UpdateChangesOnlyNamedRoute ==
    [][ /\ Len(routing_spine') >= Len(routing_spine)
        /\ \A i \in 1..Len(routing_spine) :
              /\ routing_spine'[i].agent_name = routing_spine[i].agent_name
              /\ routing_spine'[i].priority = routing_spine[i].priority
              /\ routing_spine'[i].handles_content = routing_spine[i].handles_content
              /\ routing_spine'[i].capabilities = routing_spine[i].capabilities
        /\ UpdateSuccessRateCalled =>
              LET agent_name == callers'[SequentialCaller].argument[1]
                  success    == callers'[SequentialCaller].argument[2]
                  named      == RoutesNamed(routing_spine, agent_name)
              IN  /\ Len(routing_spine') = Len(routing_spine)
                  /\ \A i \in (1..Len(routing_spine)) \ named :
                        routing_spine'[i] = routing_spine[i]
                  /\ named = {} => routing_spine' = routing_spine
                  /\ named # {} =>
                        \E i \in named :
                          LET old == routing_spine[i].success_rate
                              new == routing_spine'[i].success_rate
                          IN  /\ \A j \in named \ {i} :
                                    routing_spine'[j] = routing_spine[j]
                              /\ IF success
                                 THEN new >= old /\ (old < RateOne => new > old)
                                 ELSE new <= old /\ (old > 0 => new < old)
      ]_vars

\* update_success_rate was just called with the name of a registered route,
\* after a route was registered: that route's rate has changed, and another
\* route still has the rate it was registered with
C37_Witness ==
    /\ LastCall.last_call = "update_success_rate"
    /\ Len(routing_spine) > Len(_register_default_routes)
    /\ \E i, j \in 1..Len(routing_spine) :
          /\ routing_spine[i].agent_name = LastCall.argument[1]
          /\ routing_spine[i].success_rate < RateOne
          /\ routing_spine[j].agent_name # LastCall.argument[1]
          /\ routing_spine[j].success_rate = RateOne

\* update_success_rate was just called with a name that has no route, after
\* a call that lowered a rate
C37_WitnessNoSuchRoute ==
    /\ LastCall.last_call = "update_success_rate"
    /\ RoutesNamed(routing_spine, LastCall.argument[1]) = {}
    /\ rate_updates = 2
    /\ \E i \in 1..Len(routing_spine) : routing_spine[i].success_rate < RateOne

====
